---- MODULE Spec2Model ----
(***************************************************************************)
(* JMX codec of the JMeter script visualizer: JMXParser.parse and          *)
(* JMXSerializer.serialize over the sibling-pair (element, hashTree)       *)
(* encoding, with the property accessors and the per-kind decoders and     *)
(* encoders.                                                               *)
(*                                                                         *)
(* Texts and attribute values are strings; an absent attribute and an      *)
(* attribute with the empty value are both "", which the code never tells  *)
(* apart (every read goes through `|| default`, `!== 'false'` or a         *)
(* truthiness test).  A document is the tree of its tags in document       *)
(* order; the xml2js object view the parser reads (children grouped by tag *)
(* name) is computed from it by Keys and ChildrenNamed.                    *)
(***************************************************************************)
EXTENDS Integers, Sequences, FiniteSets, TLC

(***************************************************************************)
(* Bounds of the model.                                                    *)
(***************************************************************************)
\* largest number of sibling elements of one container of an input
MaxSiblings == 3

(***************************************************************************)
(* JavaScript values of the fields typed number | string | undefined.      *)
(***************************************************************************)
Undefined == [t |-> "undefined", n |-> 0, s |-> ""]
NaN == [t |-> "NaN", n |-> 0, s |-> ""]
Num(k) == [t |-> "number", n |-> k, s |-> ""]
Str(x) == [t |-> "string", n |-> 0, s |-> x]

Truthy(v) == (v.t = "number" /\ v.n # 0) \/ (v.t = "string" /\ v.s # "")

\* a || d
OrElse(v, d) == IF Truthy(v) THEN v ELSE d

(***************************************************************************)
(* String conversions, computed character by character.                    *)
(***************************************************************************)
Digits == "0123456789"

CharAt(s, i) == SubSeq(s, i, i)

IsDigit(c) == \E d \in 1..10 : CharAt(Digits, d) = c

DigitVal(c) == (CHOOSE d \in 1..10 : CharAt(Digits, d) = c) - 1

IsWhite(c) == c = " "

RECURSIVE SkipWhite(_)
SkipWhite(s) ==
  IF Len(s) > 0 /\ IsWhite(CharAt(s, 1)) THEN SkipWhite(SubSeq(s, 2, Len(s))) ELSE s

RECURSIVE DigitPrefix(_, _)
\* number of leading decimal digits of s from position i on
DigitPrefix(s, i) ==
  IF i <= Len(s) /\ IsDigit(CharAt(s, i)) THEN 1 + DigitPrefix(s, i + 1) ELSE 0

RECURSIVE DigitsValue(_, _, _)
DigitsValue(s, i, acc) ==
  IF i > Len(s) THEN acc ELSE DigitsValue(s, i + 1, 10 * acc + DigitVal(CharAt(s, i)))

\* parseInt(s, 10): leading white space, an optional sign, the longest prefix
\* of digits; NaN when there is no digit
parseInt10(s) ==
  LET w == SkipWhite(s)
      signed == Len(w) > 0 /\ CharAt(w, 1) \in {"-", "+"}
      neg == Len(w) > 0 /\ CharAt(w, 1) = "-"
      body == IF signed THEN SubSeq(w, 2, Len(w)) ELSE w
      k == DigitPrefix(body, 1)
      mag == DigitsValue(SubSeq(body, 1, k), 1, 0)
  IN  IF k = 0 THEN NaN ELSE Num(IF neg THEN 0 - mag ELSE mag)

\* s.includes(sub)
Includes(s, sub) ==
  \E i \in 1..Len(s) : i + Len(sub) - 1 <= Len(s) /\ SubSeq(s, i, i + Len(sub) - 1) = sub

RECURSIVE NatToStr(_)
NatToStr(k) ==
  IF k < 10 THEN CharAt(Digits, k + 1)
  ELSE NatToStr(k \div 10) \o CharAt(Digits, (k % 10) + 1)

\* Number.prototype.toString()
NumToStr(k) == IF k < 0 THEN "-" \o NatToStr(0 - k) ELSE NatToStr(k)

\* Boolean.prototype.toString()
BoolToStr(b) == IF b THEN "true" ELSE "false"

\* str.substring(0, k)
Substring0(s, k) == SubSeq(s, 1, IF Len(s) < k THEN Len(s) ELSE k)

(***************************************************************************)
(* Markup nodes: a tag, its attributes, its text and its child tags in     *)
(* document order.                                                         *)
(***************************************************************************)
NoAttrs ==
  [name |-> "", elementType |-> "", guiclass |-> "", testclass |-> "",
   testname |-> "", enabled |-> "", version |-> "", properties |-> "", jmeter |-> ""]

\* parent.ele(tag, attrs).txt(text) with the given children
Ele(tag, attrs, text, kids) ==
  [tag |-> tag, text |-> text, kids |-> kids] @@ attrs @@ NoAttrs

\* the value of a lookup that finds nothing (undefined)
NoNode == Ele("", [name |-> ""], "", <<>>)

\* the node a throwing emitter leaves in place of its tag (TypeError)
ThrowNode == Ele("#TypeError", [name |-> ""], "", <<>>)

\* xml2js, explicitArray: node[tag] is the array of the children with that tag
ChildrenNamed(node, tag) == SelectSeq(node.kids, LAMBDA k : k.tag = tag)

RECURSIVE DistinctTags(_, _)
DistinctTags(kids, seen) ==
  IF kids = <<>> THEN seen
  ELSE DistinctTags(Tail(kids),
         IF \E i \in 1..Len(seen) : seen[i] = Head(kids).tag
         THEN seen ELSE Append(seen, Head(kids).tag))

\* Object.keys(node) restricted to child tags: one key per tag name, in the
\* order in which each name first occurs
Keys(node) == DistinctTags(node.kids, <<>>)

\* array.find(p => p[attr] === value), NoNode when nothing matches
FindBy(arr, attr, value) ==
  LET hits == {i \in 1..Len(arr) : arr[i][attr] = value}
  IN  IF hits = {} THEN NoNode ELSE arr[CHOOSE i \in hits : \A j \in hits : i <= j]

\* prop._ : the text of a tag, undefined when the tag has no text
TextOf(prop) == IF prop.text = "" THEN Undefined ELSE Str(prop.text)

\* an xml2js value is truthy when it is an object: the tag exists and is not
\* the empty tag (which xml2js turns into '')
IsObject(node) == node # NoNode /\ node.kids # <<>>

(***************************************************************************)
(* Property accessors (JMXParser.ts).                                      *)
(***************************************************************************)
parseStringProp(xml, name) ==
  LET prop == FindBy(ChildrenNamed(xml, "stringProp"), "name", name)
  IN  IF prop = NoNode THEN Undefined ELSE TextOf(prop)

parseIntProp(xml, name) ==
  LET prop == FindBy(ChildrenNamed(xml, "intProp"), "name", name)
      value == TextOf(prop)
  IN  IF prop = NoNode THEN Undefined
      ELSE IF Truthy(value) THEN parseInt10(value.s) ELSE Undefined

parseBoolProp(xml, name) ==
  LET prop == FindBy(ChildrenNamed(xml, "boolProp"), "name", name)
  IN  IF prop = NoNode THEN FALSE ELSE TextOf(prop) = Str("true")

parseIntOrStringProp(xml, name) ==
  LET intVal == parseIntProp(xml, name)
      strVal == parseStringProp(xml, name)
  IN  IF intVal # Undefined THEN intVal
      ELSE IF Truthy(strVal) /\ Includes(strVal.s, "${") THEN strVal
      ELSE IF Truthy(strVal) THEN OrElse(parseInt10(strVal.s), strVal)
      ELSE Undefined

parseCollectionProp(xml, name) ==
  LET collection == FindBy(ChildrenNamed(xml, "collectionProp"), "name", name)
      props == ChildrenNamed(collection, "stringProp")
  IN  IF collection = NoNode \/ props = <<>> THEN <<>>
      ELSE [i \in 1..Len(props) |-> OrElse(TextOf(props[i]), Str(""))]

findStringProp(elem, name) ==
  LET prop == FindBy(ChildrenNamed(elem, "stringProp"), "name", name)
  IN  IF prop = NoNode THEN Undefined ELSE TextOf(prop)

findBoolProp(elem, name) ==
  LET prop == FindBy(ChildrenNamed(elem, "boolProp"), "name", name)
  IN  IF prop = NoNode THEN FALSE ELSE TextOf(prop) = Str("true")

\* getStringValue(xml.attr) || dflt
AttrOr(xml, attr, dflt) == IF xml[attr] # "" THEN xml[attr] ELSE dflt

\* getStringValue(xml.enabled) !== 'false'
EnabledOf(xml) == xml.enabled # "false"

\* generateId(): the next identity of the stream this parse draws from
generateId(ids, k) == ids[k + 1]

(***************************************************************************)
(* Decoders of nested blocks.                                              *)
(***************************************************************************)
\* parseLoopController without the `|| 1` on the loop count
parseLoopControllerNoDefault(xml) ==
  LET loopControllerProp ==
        FindBy(ChildrenNamed(xml, "elementProp"), "elementType", "LoopController")
  IN  IF loopControllerProp # NoNode
      THEN [loops |-> parseIntOrStringProp(loopControllerProp, "LoopController.loops"),
            continueForever |-> parseBoolProp(loopControllerProp, "LoopController.continue_forever")]
      ELSE [loops |-> Num(1), continueForever |-> FALSE]

parseLoopController(xml) ==
  LET loopControllerProp ==
        FindBy(ChildrenNamed(xml, "elementProp"), "elementType", "LoopController")
  IN  IF loopControllerProp # NoNode
      THEN [loops |-> OrElse(parseIntOrStringProp(loopControllerProp, "LoopController.loops"), Num(1)),
            continueForever |-> parseBoolProp(loopControllerProp, "LoopController.continue_forever")]
      ELSE [loops |-> Num(1), continueForever |-> FALSE]

\* the elementProp tags of the Arguments.arguments collection of the block
\* named blockName, <<>> when the block or the collection is missing
ArgumentElems(xml, blockName) ==
  LET argsProp == FindBy(ChildrenNamed(xml, "elementProp"), "name", blockName)
      collection == FindBy(ChildrenNamed(argsProp, "collectionProp"), "name", "Arguments.arguments")
  IN  IF argsProp = NoNode \/ collection = NoNode THEN <<>>
      ELSE ChildrenNamed(collection, "elementProp")

parseUserDefinedVariables(xml) ==
  LET elems == ArgumentElems(xml, "TestPlan.user_defined_variables")
  IN  [i \in 1..Len(elems) |->
        [name |-> OrElse(findStringProp(elems[i], "Argument.name"), Str("")).s,
         value |-> OrElse(findStringProp(elems[i], "Argument.value"), Str("")).s,
         metadata |-> findStringProp(elems[i], "Argument.metadata")]]

parseBodyData(xml) ==
  LET elems == ArgumentElems(xml, "HTTPsampler.Arguments")
  IN  IF elems = <<>> THEN Undefined ELSE findStringProp(elems[1], "Argument.value")

parseHTTPArguments(xml) ==
  LET elems == ArgumentElems(xml, "HTTPsampler.Arguments")
  IN  [i \in 1..Len(elems) |->
        [name |-> OrElse(findStringProp(elems[i], "Argument.name"), Str("")).s,
         value |-> OrElse(findStringProp(elems[i], "Argument.value"), Str("")).s,
         metadata |-> OrElse(findStringProp(elems[i], "Argument.metadata"), Str("")).s,
         alwaysEncode |-> findBoolProp(elems[i], "HTTPArgument.always_encode")]]

\* the headers of a HeaderManager: entries without name and value are skipped
parseHeaders(xml) ==
  LET headersProp == FindBy(ChildrenNamed(xml, "collectionProp"), "name", "HeaderManager.headers")
      elems == ChildrenNamed(headersProp, "elementProp")
      kept == SelectSeq(elems, LAMBDA e :
                Truthy(findStringProp(e, "Header.name")) \/ Truthy(findStringProp(e, "Header.value")))
  IN  [i \in 1..Len(kept) |->
        [name |-> OrElse(findStringProp(kept[i], "Header.name"), Str("")).s,
         value |-> OrElse(findStringProp(kept[i], "Header.value"), Str("")).s]]

(***************************************************************************)
(* Element decoders.  ids is the stream of identities generateId returns   *)
(* during the parse and k the number of identities drawn so far.           *)
(***************************************************************************)
\* parseElement's result for an element that is not decoded
Null == [type |-> "null"]

RECURSIVE TreeSize(_), ForestSize(_)
\* number of elements of a subtree, which is the number of identities its
\* decoding drew
TreeSize(e) == 1 + ForestSize(e.children)
ForestSize(es) == IF es = <<>> THEN 0 ELSE TreeSize(Head(es)) + ForestSize(Tail(es))

RECURSIVE parseHashTree(_, _, _)

parseThreadGroup(xml, childHashTree, type, ids, k) ==
  [id |-> generateId(ids, k),
   type |-> type,
   testClass |-> type,
   guiClass |-> AttrOr(xml, "guiclass", "ThreadGroupGui"),
   name |-> AttrOr(xml, "testname", "Thread Group"),
   enabled |-> EnabledOf(xml),
   comments |-> parseStringProp(xml, "TestPlan.comments"),
   numThreads |-> OrElse(parseIntOrStringProp(xml, "ThreadGroup.num_threads"), Num(1)),
   rampTime |-> OrElse(parseIntOrStringProp(xml, "ThreadGroup.ramp_time"), Num(1)),
   duration |-> parseIntOrStringProp(xml, "ThreadGroup.duration"),
   delay |-> parseIntOrStringProp(xml, "ThreadGroup.delay"),
   scheduler |-> parseBoolProp(xml, "ThreadGroup.scheduler"),
   sameUserOnNextIteration |-> parseBoolProp(xml, "ThreadGroup.same_user_on_next_iteration"),
   onSampleError |-> OrElse(parseStringProp(xml, "ThreadGroup.on_sample_error"), Str("continue")).s,
   loopController |-> parseLoopController(xml),
   children |-> IF IsObject(childHashTree) THEN parseHashTree(childHashTree, ids, k + 1) ELSE <<>>]

parseHTTPSampler(xml, childHashTree, ids, k) ==
  [id |-> generateId(ids, k),
   type |-> "HTTPSamplerProxy",
   testClass |-> "HTTPSamplerProxy",
   guiClass |-> AttrOr(xml, "guiclass", "HttpTestSampleGui"),
   name |-> AttrOr(xml, "testname", "HTTP Request"),
   enabled |-> EnabledOf(xml),
   comments |-> parseStringProp(xml, "TestPlan.comments"),
   domain |-> OrElse(parseStringProp(xml, "HTTPSampler.domain"), Str("")).s,
   port |-> parseIntProp(xml, "HTTPSampler.port"),
   protocol |-> OrElse(parseStringProp(xml, "HTTPSampler.protocol"), Str("https")).s,
   path |-> OrElse(parseStringProp(xml, "HTTPSampler.path"), Str("/")).s,
   method |-> OrElse(parseStringProp(xml, "HTTPSampler.method"), Str("GET")).s,
   followRedirects |-> parseBoolProp(xml, "HTTPSampler.follow_redirects"),
   useKeepAlive |-> parseBoolProp(xml, "HTTPSampler.use_keepalive"),
   postBodyRaw |-> parseBoolProp(xml, "HTTPSampler.postBodyRaw"),
   bodyData |-> parseBodyData(xml),
   concurrentPool |-> parseIntProp(xml, "HTTPSampler.concurrentPool"),
   implementation |-> parseStringProp(xml, "HTTPSampler.implementation"),
   arguments |-> parseHTTPArguments(xml),
   children |-> IF IsObject(childHashTree) THEN parseHashTree(childHashTree, ids, k + 1) ELSE <<>>]

parseRegexExtractor(xml, ids, k) ==
  [id |-> generateId(ids, k),
   type |-> "RegexExtractor",
   testClass |-> "RegexExtractor",
   guiClass |-> AttrOr(xml, "guiclass", "RegexExtractorGui"),
   name |-> AttrOr(xml, "testname", "Regular Expression Extractor"),
   enabled |-> EnabledOf(xml),
   refName |-> OrElse(parseStringProp(xml, "RegexExtractor.refname"), Str("")).s,
   regex |-> OrElse(parseStringProp(xml, "RegexExtractor.regex"), Str("")).s,
   template |-> OrElse(parseStringProp(xml, "RegexExtractor.template"), Str("$1$")).s,
   defaultValue |-> OrElse(parseStringProp(xml, "RegexExtractor.default"), Str("")).s,
   matchNumber |-> OrElse(parseIntOrStringProp(xml, "RegexExtractor.match_number"), Num(1)),
   useHeaders |-> parseBoolProp(xml, "RegexExtractor.useHeaders"),
   defaultEmptyValue |-> parseBoolProp(xml, "RegexExtractor.default_empty_value"),
   scope |-> parseStringProp(xml, "Sample.scope"),
   children |-> <<>>]

parseResponseAssertion(xml, ids, k) ==
  [id |-> generateId(ids, k),
   type |-> "ResponseAssertion",
   testClass |-> "ResponseAssertion",
   guiClass |-> AttrOr(xml, "guiclass", "AssertionGui"),
   name |-> AttrOr(xml, "testname", "Response Assertion"),
   enabled |-> EnabledOf(xml),
   testField |-> OrElse(parseStringProp(xml, "Assertion.test_field"), Str("response_data")).s,
   testType |-> OrElse(parseIntProp(xml, "Assertion.test_type"), Num(2)),
   testStrings |-> LET strs == parseCollectionProp(xml, "Asserion.test_strings")
                   IN  [i \in 1..Len(strs) |-> strs[i].s],
   assumeSuccess |-> parseBoolProp(xml, "Assertion.assume_success"),
   customMessage |-> parseStringProp(xml, "Assertion.custom_message"),
   children |-> <<>>]

parseHeaderManager(xml, ids, k) ==
  [id |-> generateId(ids, k),
   type |-> "HeaderManager",
   testClass |-> "HeaderManager",
   guiClass |-> AttrOr(xml, "guiclass", "HeaderPanel"),
   name |-> AttrOr(xml, "testname", "HTTP Header Manager"),
   enabled |-> EnabledOf(xml),
   headers |-> parseHeaders(xml),
   children |-> <<>>]

\* the decoders that read the base fields only: parseArguments,
\* parseJSR223Sampler, parseJSR223PostProcessor, parseConstantThroughputTimer
parseBaseOnly(xml, type, guiDefault, nameDefault, ids, k) ==
  [id |-> generateId(ids, k),
   type |-> type,
   testClass |-> type,
   guiClass |-> AttrOr(xml, "guiclass", guiDefault),
   name |-> AttrOr(xml, "testname", nameDefault),
   enabled |-> EnabledOf(xml),
   children |-> <<>>]

parseArguments(xml, ids, k) ==
  parseBaseOnly(xml, "Arguments", "ArgumentsPanel", "User Defined Variables", ids, k)

\* the paired container is received and not read
parseJSR223Sampler(xml, childHashTree, ids, k) ==
  parseBaseOnly(xml, "JSR223Sampler", "TestBeanGUI", "JSR223 Sampler", ids, k)

parseJSR223PostProcessor(xml, ids, k) ==
  parseBaseOnly(xml, "JSR223PostProcessor", "TestBeanGUI", "JSR223 PostProcessor", ids, k)

parseConstantThroughputTimer(xml, ids, k) ==
  parseBaseOnly(xml, "ConstantThroughputTimer", "TestBeanGUI", "Constant Throughput Timer", ids, k)

parseBeanShellAssertion(xml, ids, k) ==
  [id |-> generateId(ids, k),
   type |-> "BeanShellAssertion",
   testClass |-> "BeanShellAssertion",
   guiClass |-> AttrOr(xml, "guiclass", "BeanShellAssertionGui"),
   name |-> AttrOr(xml, "testname", "BeanShell Assertion"),
   enabled |-> EnabledOf(xml),
   query |-> OrElse(parseStringProp(xml, "BeanShellAssertion.query"), Str("")).s,
   filename |-> parseStringProp(xml, "BeanShellAssertion.filename"),
   parameters |-> parseStringProp(xml, "BeanShellAssertion.parameters"),
   resetInterpreter |-> parseBoolProp(xml, "BeanShellAssertion.resetInterpreter"),
   children |-> <<>>]

parseResultCollector(xml, ids, k) ==
  [id |-> generateId(ids, k),
   type |-> "ResultCollector",
   testClass |-> "ResultCollector",
   guiClass |-> AttrOr(xml, "guiclass", "ViewResultsFullVisualizer"),
   name |-> AttrOr(xml, "testname", "View Results Tree"),
   enabled |-> EnabledOf(xml),
   errorLogging |-> parseBoolProp(xml, "ResultCollector.error_logging"),
   children |-> <<>>]

parseTestAction(xml, childHashTree, ids, k) ==
  [id |-> generateId(ids, k),
   type |-> "TestAction",
   testClass |-> "TestAction",
   guiClass |-> AttrOr(xml, "guiclass", "TestActionGui"),
   name |-> AttrOr(xml, "testname", "Test Action"),
   enabled |-> EnabledOf(xml),
   children |-> IF IsObject(childHashTree) THEN parseHashTree(childHashTree, ids, k + 1) ELSE <<>>]

ThreadGroupClasses == {"ThreadGroup", "SetupThreadGroup", "PostThreadGroup"}

\* the switch on the testclass attribute; tagName is received and not read
parseElement(tagName, xml, childHashTree, ids, k) ==
  LET testClass == xml.testclass
  IN  IF testClass = "" THEN Null
      ELSE IF testClass \in ThreadGroupClasses THEN parseThreadGroup(xml, childHashTree, testClass, ids, k)
      ELSE IF testClass = "HTTPSamplerProxy" THEN parseHTTPSampler(xml, childHashTree, ids, k)
      ELSE IF testClass = "RegexExtractor" THEN parseRegexExtractor(xml, ids, k)
      ELSE IF testClass = "ResponseAssertion" THEN parseResponseAssertion(xml, ids, k)
      ELSE IF testClass = "HeaderManager" THEN parseHeaderManager(xml, ids, k)
      ELSE IF testClass = "Arguments" THEN parseArguments(xml, ids, k)
      ELSE IF testClass = "JSR223Sampler" THEN parseJSR223Sampler(xml, childHashTree, ids, k)
      ELSE IF testClass = "JSR223PostProcessor" THEN parseJSR223PostProcessor(xml, ids, k)
      ELSE IF testClass = "BeanShellAssertion" THEN parseBeanShellAssertion(xml, ids, k)
      ELSE IF testClass = "ResultCollector" THEN parseResultCollector(xml, ids, k)
      ELSE IF testClass = "TestAction" THEN parseTestAction(xml, childHashTree, ids, k)
      ELSE IF testClass = "ConstantThroughputTimer" THEN parseConstantThroughputTimer(xml, ids, k)
      ELSE Null

RECURSIVE ConcatGroups(_, _)
\* the element tags of a container in the order the two nested loops of
\* parseHashTree visit them: key by key, and in document order within a key
ConcatGroups(hashTree, keys) ==
  IF keys = <<>> THEN <<>>
  ELSE ChildrenNamed(hashTree, Head(keys)) \o ConcatGroups(hashTree, Tail(keys))

RECURSIVE parseHashTreeLoop(_, _, _, _, _, _)
\* the loop body of parseHashTree: hashTreeIndex counts the element tags
\* visited so far and selects the container tag paired with the next one
parseHashTreeLoop(visited, hashTrees, hashTreeIndex, elements, ids, k) ==
  IF hashTreeIndex >= Len(visited) THEN elements
  ELSE LET elementXml == visited[hashTreeIndex + 1]
           childHashTree == IF hashTreeIndex < Len(hashTrees)
                            THEN hashTrees[hashTreeIndex + 1] ELSE NoNode
           element == parseElement(elementXml.tag, elementXml, childHashTree, ids, k)
       IN  IF element # Null
           THEN parseHashTreeLoop(visited, hashTrees, hashTreeIndex + 1,
                                  Append(elements, element), ids, k + TreeSize(element))
           ELSE parseHashTreeLoop(visited, hashTrees, hashTreeIndex + 1, elements, ids, k)

parseHashTree(hashTree, ids, k) ==
  IF ~IsObject(hashTree) THEN <<>>
  ELSE LET keys == SelectSeq(Keys(hashTree), LAMBDA key : key # "hashTree")
           hashTrees == ChildrenNamed(hashTree, "hashTree")
       IN  parseHashTreeLoop(ConcatGroups(hashTree, keys), hashTrees, 0, <<>>, ids, k)

\* "" as the testname of the plan stands for the absent attribute
parseTestPlan(xml, childrenHashTree, ids, k) ==
  [id |-> generateId(ids, k),
   type |-> "TestPlan",
   testClass |-> "TestPlan",
   guiClass |-> "TestPlanGui",
   name |-> AttrOr(xml, "testname", "Test Plan"),
   enabled |-> TRUE,
   functionalMode |-> parseBoolProp(xml, "TestPlan.functional_mode"),
   serializeThreadGroups |-> parseBoolProp(xml, "TestPlan.serialize_threadgroups"),
   userDefinedVariables |-> parseUserDefinedVariables(xml),
   children |-> IF IsObject(childrenHashTree) THEN parseHashTree(childrenHashTree, ids, k + 1) ELSE <<>>]

\* what parse leaves when it throws (a TypeError on a missing tag)
ParseError == [error |-> "TypeError"]

\* parse(xmlContent), xmlContent given as its root tag; ids is the stream of
\* identities of this call
parse(doc, ids) ==
  LET rootTrees == ChildrenNamed(doc, "hashTree")
      hashTree == rootTrees[1]
      plans == ChildrenNamed(hashTree, "TestPlan")
      inner == ChildrenNamed(hashTree, "hashTree")
  IN  IF doc.tag # "jmeterTestPlan" \/ rootTrees = <<>> THEN ParseError
      ELSE IF plans = <<>> \/ inner = <<>> THEN ParseError
      ELSE [version |-> doc.version,
            properties |-> doc.properties,
            jmeter |-> doc.jmeter,
            testPlan |-> parseTestPlan(plans[1], inner[1], ids, 0)]

(***************************************************************************)
(* Encoders (JMXSerializer.ts).  An encoder returns the tag it appends to  *)
(* its parent.                                                             *)
(***************************************************************************)
\* elem.ele(propType, { name }).txt(text)
Prop(propType, name, text) == Ele(propType, [name |-> name], text, <<>>)

\* addProp: a string is written as it is, any other value through
\* toString(), which throws on undefined
addProp(propType, name, value) ==
  IF value.t = "string" THEN Prop(propType, name, value.s)
  ELSE IF value.t = "number" THEN Prop(propType, name, NumToStr(value.n))
  ELSE IF value.t = "NaN" THEN Prop(propType, name, "NaN")
  ELSE ThrowNode

\* element.field, undefined when the object has no such field
Field(element, field) == IF field \in DOMAIN element THEN element[field] ELSE Undefined

\* the tags of an `if (cond) { elem.ele(...) }`
When(cond, node) == IF cond THEN <<node>> ELSE <<>>

\* ElementAttrs with the identity of the element written as a fifth attribute
ElementAttrsWithId(element) ==
  [guiclass |-> element.guiClass, testclass |-> element.testClass,
   testname |-> element.name, enabled |-> BoolToStr(element.enabled),
   id |-> element.id]

\* the four attributes every element tag carries
ElementAttrs(element) ==
  [guiclass |-> element.guiClass, testclass |-> element.testClass,
   testname |-> element.name, enabled |-> BoolToStr(element.enabled)]

serializeThreadGroup(tg) ==
  Ele(tg.type, ElementAttrs(tg), "",
      When(Truthy(Field(tg, "comments")), Prop("stringProp", "TestPlan.comments", Field(tg, "comments").s))
      \o <<addProp("intProp", "ThreadGroup.num_threads", tg.numThreads),
           addProp("intProp", "ThreadGroup.ramp_time", tg.rampTime)>>
      \o When(Field(tg, "duration") # Undefined, addProp("stringProp", "ThreadGroup.duration", Field(tg, "duration")))
      \o When(Field(tg, "delay") # Undefined, addProp("stringProp", "ThreadGroup.delay", Field(tg, "delay")))
      \o <<Prop("boolProp", "ThreadGroup.same_user_on_next_iteration", BoolToStr(tg.sameUserOnNextIteration)),
           Prop("boolProp", "ThreadGroup.scheduler", BoolToStr(tg.scheduler)),
           Prop("stringProp", "ThreadGroup.on_sample_error", tg.onSampleError),
           Ele("elementProp",
               [name |-> "ThreadGroup.main_controller", elementType |-> "LoopController",
                guiclass |-> "LoopControlPanel", testclass |-> "LoopController",
                testname |-> "Loop Controller"], "",
               <<addProp("intProp", "LoopController.loops", tg.loopController.loops),
                 Prop("boolProp", "LoopController.continue_forever",
                      BoolToStr(tg.loopController.continueForever))>>)>>)

serializeHTTPSampler(sampler) ==
  Ele("HTTPSamplerProxy", ElementAttrs(sampler), "",
      When(Truthy(Field(sampler, "comments")), Prop("stringProp", "TestPlan.comments", Field(sampler, "comments").s))
      \o When(Truthy(Field(sampler, "concurrentPool")),
              Prop("intProp", "HTTPSampler.concurrentPool", NumToStr(Field(sampler, "concurrentPool").n)))
      \o <<Prop("stringProp", "HTTPSampler.domain", sampler.domain),
           Prop("stringProp", "HTTPSampler.protocol", sampler.protocol),
           Prop("stringProp", "HTTPSampler.path", sampler.path),
           Prop("boolProp", "HTTPSampler.follow_redirects", BoolToStr(sampler.followRedirects)),
           Prop("stringProp", "HTTPSampler.method", sampler.method),
           Prop("boolProp", "HTTPSampler.use_keepalive", BoolToStr(sampler.useKeepAlive)),
           Prop("boolProp", "HTTPSampler.postBodyRaw", BoolToStr(sampler.postBodyRaw))>>
      \o When(Truthy(Field(sampler, "port")), Prop("intProp", "HTTPSampler.port", NumToStr(Field(sampler, "port").n)))
      \o When(Truthy(Field(sampler, "implementation")),
              Prop("stringProp", "HTTPSampler.implementation", Field(sampler, "implementation").s))
      \o <<Ele("elementProp", [name |-> "HTTPsampler.Arguments", elementType |-> "Arguments"], "",
               <<Ele("collectionProp", [name |-> "Arguments.arguments"], "",
                     [i \in 1..Len(sampler.arguments) |->
                       Ele("elementProp",
                           [name |-> sampler.arguments[i].name, elementType |-> "HTTPArgument"], "",
                           <<Prop("boolProp", "HTTPArgument.always_encode",
                                  BoolToStr(sampler.arguments[i].alwaysEncode)),
                             Prop("stringProp", "Argument.value", sampler.arguments[i].value),
                             Prop("stringProp", "Argument.metadata", sampler.arguments[i].metadata)>>)])>>)>>)

serializeRegexExtractor(extractor) ==
  Ele("RegexExtractor", ElementAttrs(extractor), "",
      <<Prop("boolProp", "RegexExtractor.useHeaders", BoolToStr(extractor.useHeaders)),
        Prop("stringProp", "RegexExtractor.refname", extractor.refName),
        Prop("stringProp", "RegexExtractor.regex", extractor.regex),
        Prop("stringProp", "RegexExtractor.template", extractor.template),
        Prop("stringProp", "RegexExtractor.default", extractor.defaultValue),
        addProp("intProp", "RegexExtractor.match_number", extractor.matchNumber),
        Prop("boolProp", "RegexExtractor.default_empty_value", BoolToStr(extractor.defaultEmptyValue))>>
      \o When(Truthy(Field(extractor, "scope")), Prop("stringProp", "Sample.scope", Field(extractor, "scope").s)))

serializeResponseAssertion(assertion) ==
  Ele("ResponseAssertion", ElementAttrs(assertion), "",
      <<Ele("collectionProp", [name |-> "Asserion.test_strings"], "",
            [i \in 1..Len(assertion.testStrings) |->
              Prop("stringProp", Substring0(assertion.testStrings[i], 10), assertion.testStrings[i])])>>
      \o When(Truthy(Field(assertion, "customMessage")),
              Prop("stringProp", "Assertion.custom_message", Field(assertion, "customMessage").s))
      \o <<Prop("stringProp", "Assertion.test_field", assertion.testField),
           Prop("boolProp", "Assertion.assume_success", BoolToStr(assertion.assumeSuccess)),
           addProp("intProp", "Assertion.test_type", assertion.testType)>>)

serializeHeaderManager(manager) ==
  Ele("HeaderManager", ElementAttrs(manager), "",
      When(Truthy(Field(manager, "comments")), Prop("stringProp", "TestPlan.comments", Field(manager, "comments").s))
      \o <<Ele("collectionProp", [name |-> "HeaderManager.headers"], "",
               [i \in 1..Len(manager.headers) |->
                 Ele("elementProp", [name |-> manager.headers[i].name, elementType |-> "Header"], "",
                     <<Prop("stringProp", "Header.name", manager.headers[i].name),
                       Prop("stringProp", "Header.value", manager.headers[i].value)>>)])>>)

serializeBeanShellAssertion(assertion) ==
  Ele("BeanShellAssertion", ElementAttrs(assertion), "",
      <<Prop("stringProp", "BeanShellAssertion.query", assertion.query)>>
      \o When(Truthy(Field(assertion, "filename")),
              Prop("stringProp", "BeanShellAssertion.filename", Field(assertion, "filename").s))
      \o When(Truthy(Field(assertion, "parameters")),
              Prop("stringProp", "BeanShellAssertion.parameters", Field(assertion, "parameters").s))
      \o <<Prop("boolProp", "BeanShellAssertion.resetInterpreter", BoolToStr(assertion.resetInterpreter))>>)

serializeArguments(element) ==
  Ele("Arguments", ElementAttrs(element), "",
      <<Ele("collectionProp", [name |-> "Arguments.arguments"], "", <<>>)>>)

serializeJSR223Element(element) ==
  Ele(element.type, ElementAttrs(element), "",
      <<Prop("stringProp", "scriptLanguage", "groovy"),
        Prop("stringProp", "parameters", ""),
        Prop("stringProp", "filename", ""),
        Prop("stringProp", "cacheKey", "true"),
        Prop("stringProp", "script", "")>>)

serializeResultCollector(element) ==
  Ele("ResultCollector", ElementAttrs(element), "",
      <<Prop("boolProp", "ResultCollector.error_logging", "false"),
        Prop("stringProp", "filename", "")>>)

serializeTestAction(element) ==
  Ele("TestAction", ElementAttrs(element), "",
      <<Prop("intProp", "ActionProcessor.action", "1"),
        Prop("intProp", "ActionProcessor.target", "0"),
        Prop("stringProp", "ActionProcessor.duration", "0")>>)

serializeConstantThroughputTimer(element) ==
  Ele("ConstantThroughputTimer", ElementAttrs(element), "",
      <<Prop("intProp", "calcMode", "0"),
        Prop("stringProp", "throughput", "0")>>)

\* the kinds serializeElement has a case for
EncodedKinds ==
  ThreadGroupClasses \cup
  {"HTTPSamplerProxy", "RegexExtractor", "ResponseAssertion", "HeaderManager",
   "BeanShellAssertion", "Arguments", "JSR223Sampler", "JSR223PostProcessor",
   "ResultCollector", "TestAction", "ConstantThroughputTimer"}

\* the tags serializeElement appends to the parent: the switch has no
\* default, an element of any other kind appends nothing
serializeElement(element) ==
  IF element.type \in ThreadGroupClasses THEN <<serializeThreadGroup(element)>>
  ELSE IF element.type = "HTTPSamplerProxy" THEN <<serializeHTTPSampler(element)>>
  ELSE IF element.type = "RegexExtractor" THEN <<serializeRegexExtractor(element)>>
  ELSE IF element.type = "ResponseAssertion" THEN <<serializeResponseAssertion(element)>>
  ELSE IF element.type = "HeaderManager" THEN <<serializeHeaderManager(element)>>
  ELSE IF element.type = "BeanShellAssertion" THEN <<serializeBeanShellAssertion(element)>>
  ELSE IF element.type = "Arguments" THEN <<serializeArguments(element)>>
  ELSE IF element.type \in {"JSR223Sampler", "JSR223PostProcessor"} THEN <<serializeJSR223Element(element)>>
  ELSE IF element.type = "ResultCollector" THEN <<serializeResultCollector(element)>>
  ELSE IF element.type = "TestAction" THEN <<serializeTestAction(element)>>
  ELSE IF element.type = "ConstantThroughputTimer" THEN <<serializeConstantThroughputTimer(element)>>
  ELSE <<>>

RECURSIVE serializeChildrenFlat(_)
\* serializeChildren without the recursion into the children of a child
serializeChildrenFlat(children) ==
  IF children = <<>> THEN <<>>
  ELSE serializeElement(Head(children))
       \o <<Ele("hashTree", [name |-> ""], "", <<>>)>>
       \o serializeChildrenFlat(Tail(children))

RECURSIVE serializeChildren(_)
\* the tags serializeChildren appends to the parent container
serializeChildren(children) ==
  IF children = <<>> THEN <<>>
  ELSE LET child == Head(children)
       IN  serializeElement(child)
           \o <<Ele("hashTree", [name |-> ""], "",
                    IF Len(child.children) > 0 THEN serializeChildren(child.children) ELSE <<>>)>>
           \o serializeChildren(Tail(children))

\* the two tags serializeTestPlan appends to the main container
serializeTestPlan(testPlan) ==
  <<Ele("TestPlan",
        [guiclass |-> testPlan.guiClass, testclass |-> testPlan.testClass, testname |-> testPlan.name], "",
        <<Ele("elementProp",
              [name |-> "TestPlan.user_defined_variables", elementType |-> "Arguments",
               guiclass |-> "ArgumentsPanel", testclass |-> "Arguments",
               testname |-> "User Defined Variables"], "",
              <<Ele("collectionProp", [name |-> "Arguments.arguments"], "",
                    [i \in 1..Len(testPlan.userDefinedVariables) |->
                      LET arg == testPlan.userDefinedVariables[i]
                      IN  Ele("elementProp", [name |-> arg.name, elementType |-> "Argument"], "",
                              <<Prop("stringProp", "Argument.name", arg.name),
                                Prop("stringProp", "Argument.value", arg.value)>>
                              \o When(Truthy(Field(arg, "metadata")),
                                      Prop("stringProp", "Argument.metadata", Field(arg, "metadata").s)))])>>),
          Prop("boolProp", "TestPlan.functional_mode", BoolToStr(testPlan.functionalMode)),
          Prop("boolProp", "TestPlan.serialize_threadgroups", BoolToStr(testPlan.serializeThreadGroups))>>),
    Ele("hashTree", [name |-> ""], "", serializeChildren(testPlan.children))>>

RECURSIVE Throws(_)
\* some emitter below this tag threw
Throws(node) == node = ThrowNode \/ \E i \in 1..Len(node.kids) : Throws(node.kids[i])

\* what serialize leaves when it throws
SerializeError == [error |-> "TypeError"]

\* serialize(testPlan): the root tag of the text it returns
serialize(plan) ==
  LET root == Ele("jmeterTestPlan",
                  [version |-> plan.version, properties |-> plan.properties, jmeter |-> plan.jmeter], "",
                  <<Ele("hashTree", [name |-> ""], "", serializeTestPlan(plan.testPlan))>>)
  IN  IF Throws(root) THEN SerializeError ELSE root

(***************************************************************************)
(* Default-value constructors (model/types.ts); id is the identity         *)
(* generateId returns to the call.                                         *)
(***************************************************************************)
createHTTPSampler(name, id) ==
  [id |-> id, type |-> "HTTPSamplerProxy", testClass |-> "HTTPSamplerProxy",
   guiClass |-> "HttpTestSampleGui", name |-> name, enabled |-> TRUE,
   domain |-> "", protocol |-> "https", path |-> "/", method |-> "GET",
   followRedirects |-> TRUE, useKeepAlive |-> TRUE, postBodyRaw |-> FALSE,
   arguments |-> <<>>, children |-> <<>>]

createThreadGroup(name, id) ==
  [id |-> id, type |-> "ThreadGroup", testClass |-> "ThreadGroup",
   guiClass |-> "ThreadGroupGui", name |-> name, enabled |-> TRUE,
   numThreads |-> Num(1), rampTime |-> Num(1), scheduler |-> FALSE,
   sameUserOnNextIteration |-> TRUE, onSampleError |-> "continue",
   loopController |-> [loops |-> Num(1), continueForever |-> FALSE],
   children |-> <<>>]

createRegexExtractor(name, refName, id) ==
  [id |-> id, type |-> "RegexExtractor", testClass |-> "RegexExtractor",
   guiClass |-> "RegexExtractorGui", name |-> name, enabled |-> TRUE,
   refName |-> refName, regex |-> "", template |-> "$1$", defaultValue |-> "",
   matchNumber |-> Num(1), useHeaders |-> FALSE, defaultEmptyValue |-> FALSE,
   children |-> <<>>]

createResponseAssertion(name, id) ==
  [id |-> id, type |-> "ResponseAssertion", testClass |-> "ResponseAssertion",
   guiClass |-> "AssertionGui", name |-> name, enabled |-> TRUE,
   testField |-> "response_code", testType |-> Num(8), testStrings |-> <<"200">>,
   assumeSuccess |-> FALSE, children |-> <<>>]

(***************************************************************************)
(* New elements of the editor (addElementToSelected, JMeterEditorProvider) *)
(* for the kinds the model draws its trees from.                           *)
(***************************************************************************)
getGuiClass(type) ==
  CASE type = "ThreadGroup" -> "ThreadGroupGui"
    [] type = "HTTPSamplerProxy" -> "HttpTestSampleGui"
    [] type = "ResponseAssertion" -> "AssertionGui"
    [] type = "IfController" -> "IfControllerPanel"
    [] type = "ConstantTimer" -> "ConstantTimerGui"
    [] OTHER -> "TestBeanGUI"

getDefaultName(type) ==
  CASE type = "ThreadGroup" -> "Thread Group"
    [] type = "HTTPSamplerProxy" -> "HTTP Request"
    [] type = "ResponseAssertion" -> "Response Assertion"
    [] type = "IfController" -> "If Controller"
    [] type = "ConstantTimer" -> "Constant Timer"
    [] type = "JSR223Sampler" -> "JSR223 Sampler"
    [] OTHER -> type

newElement(elementType, id) ==
  LET base == [id |-> id, type |-> elementType, testClass |-> elementType,
               guiClass |-> getGuiClass(elementType), name |-> getDefaultName(elementType),
               enabled |-> TRUE, children |-> <<>>]
  IN  IF elementType = "ThreadGroup"
      THEN [numThreads |-> Num(1), rampTime |-> Num(1), scheduler |-> FALSE,
            sameUserOnNextIteration |-> TRUE, onSampleError |-> "continue",
            loopController |-> [loops |-> Num(1), continueForever |-> FALSE]] @@ base
      ELSE IF elementType = "HTTPSamplerProxy"
      THEN [domain |-> "", protocol |-> "https", path |-> "/", method |-> "GET",
            followRedirects |-> TRUE, useKeepAlive |-> TRUE, postBodyRaw |-> FALSE,
            arguments |-> <<>>] @@ base
      ELSE IF elementType = "ResponseAssertion"
      THEN [testField |-> "response_code", testType |-> Num(8), testStrings |-> <<"200">>,
            assumeSuccess |-> FALSE] @@ base
      ELSE IF elementType = "IfController"
      THEN [condition |-> "", evaluateAll |-> FALSE, useExpression |-> TRUE] @@ base
      ELSE IF elementType = "ConstantTimer"
      THEN [delay |-> Num(300)] @@ base
      ELSE base

(***************************************************************************)
(* Inputs: JMX texts and editor-built trees.                               *)
(***************************************************************************)
HashTree(kids) == Ele("hashTree", [name |-> ""], "", kids)

\* an element tag as JMeter writes it: the tag name is the test class
SrcElement(kind, testname, enabled, props) ==
  Ele(kind, [testclass |-> kind, testname |-> testname, enabled |-> enabled], "", props)

SrcTestPlan ==
  Ele("TestPlan", [guiclass |-> "TestPlanGui", testclass |-> "TestPlan", testname |-> "Plan"], "",
      <<Prop("boolProp", "TestPlan.functional_mode", "false")>>)

\* the text of a plan whose children container holds the given tags
SrcDoc(kids) ==
  Ele("jmeterTestPlan", [version |-> "1.2", properties |-> "5.0", jmeter |-> "5.6.3"], "",
      <<HashTree(<<SrcTestPlan, HashTree(kids)>>)>>)

\* kinds of the siblings of the structural inputs; the parser has no decoder
\* for IfController
StructKinds == {"HTTPSamplerProxy", "TestAction", "JSR223Sampler", "IfController"}

ElemName(i) == "e" \o NatToStr(i)
ChildName(i) == "c" \o NatToStr(i)

RECURSIVE Pairs(_, _, _)
\* element tag i named e<i> followed by its container, which holds the
\* assertion c<i> when hasChild[i]
Pairs(kinds, hasChild, i) ==
  IF i > Len(kinds) THEN <<>>
  ELSE <<SrcElement(kinds[i], ElemName(i), "true", <<>>),
         HashTree(IF hasChild[i]
                  THEN <<SrcElement("ResponseAssertion", ChildName(i), "true", <<>>), HashTree(<<>>)>>
                  ELSE <<>>)>>
       \o Pairs(kinds, hasChild, i + 1)

LoopBlock(props) ==
  Ele("elementProp",
      [name |-> "ThreadGroup.main_controller", elementType |-> "LoopController",
       guiclass |-> "LoopControlPanel", testclass |-> "LoopController",
       testname |-> "Loop Controller"], "", props)

PlainThreadGroup ==
  SrcElement("ThreadGroup", "tg", "true",
             <<Prop("intProp", "ThreadGroup.num_threads", "1"),
               Prop("intProp", "ThreadGroup.ramp_time", "1"),
               LoopBlock(<<Prop("stringProp", "LoopController.loops", "1"),
                           Prop("boolProp", "LoopController.continue_forever", "false")>>)>>)

\* a thread group whose container holds the given siblings
StructDoc(kinds, hasChild) ==
  SrcDoc(<<PlainThreadGroup, HashTree(Pairs(kinds, hasChild, 1))>>)

StructDocs ==
  UNION {{StructDoc(kinds, hasChild) : kinds \in [1..n -> StructKinds], hasChild \in [1..n -> BOOLEAN]}
         : n \in 1..MaxSiblings}

\* how a number-or-expression property is written: not at all, or as a tag of
\* the given type with the given text
NoProp == [carrier |-> "none", text |-> ""]
LoopTexts == {"2", "0", "-1", "${LOOP_COUNT}", "abc"}
ThreadTexts == {"3", "0"}
PropVariants(texts) ==
  {NoProp} \cup {[carrier |-> c, text |-> t] : c \in {"intProp", "stringProp"}, t \in texts}

PropOf(variant, name) ==
  IF variant.carrier = "none" THEN <<>> ELSE <<Prop(variant.carrier, name, variant.text)>>

\* the loop-controller block: absent, or holding the loop count as written
\* by the variant and the continue_forever flag with the given text ("" for
\* no flag)
NoBlock == [block |-> FALSE, loops |-> NoProp, forever |-> ""]
LoopVariants ==
  {NoBlock} \cup
  {[block |-> TRUE, loops |-> v, forever |-> f] : v \in PropVariants(LoopTexts), f \in {"", "true", "false"}}

FieldThreadGroup(threads, loop) ==
  SrcElement("ThreadGroup", "tg", "true",
             PropOf(threads, "ThreadGroup.num_threads")
             \o <<Prop("intProp", "ThreadGroup.ramp_time", "5")>>
             \o When(loop.block,
                     LoopBlock(PropOf(loop.loops, "LoopController.loops")
                               \o When(loop.forever # "",
                                       Prop("boolProp", "LoopController.continue_forever", loop.forever)))))

FieldDoc(threads, loop) == SrcDoc(<<FieldThreadGroup(threads, loop), HashTree(<<>>)>>)

FieldDocs == {FieldDoc(threads, loop) : threads \in PropVariants(ThreadTexts), loop \in LoopVariants}

\* one thread group (3 threads, 5 s ramp, 2 loops) > one HTTP sampler
\* (GET https://api.example.com/ping) > one response assertion ("200")
ScenarioDoc ==
  SrcDoc(<<SrcElement("ThreadGroup", "Users", "true",
                      <<Prop("intProp", "ThreadGroup.num_threads", "3"),
                        Prop("intProp", "ThreadGroup.ramp_time", "5"),
                        LoopBlock(<<Prop("stringProp", "LoopController.loops", "2"),
                                    Prop("boolProp", "LoopController.continue_forever", "false")>>)>>),
           HashTree(<<SrcElement("HTTPSamplerProxy", "ping", "true",
                                 <<Prop("stringProp", "HTTPSampler.domain", "api.example.com"),
                                   Prop("stringProp", "HTTPSampler.protocol", "https"),
                                   Prop("stringProp", "HTTPSampler.path", "/ping"),
                                   Prop("stringProp", "HTTPSampler.method", "GET")>>),
                      HashTree(<<SrcElement("ResponseAssertion", "ok", "true",
                                            <<Ele("collectionProp", [name |-> "Asserion.test_strings"], "",
                                                  <<Prop("stringProp", "49586", "200")>>),
                                              Prop("stringProp", "Assertion.test_field", "Assertion.response_code"),
                                              Prop("intProp", "Assertion.test_type", "8")>>),
                                 HashTree(<<>>)>>)>>)>>)

\* a text whose tags carry an id attribute of their own
IdDoc ==
  SrcDoc(<<Ele("ThreadGroup", [testclass |-> "ThreadGroup", testname |-> "tg", id |-> 301], "", <<>>),
           HashTree(<<Ele("HTTPSamplerProxy",
                          [testclass |-> "HTTPSamplerProxy", testname |-> "e1", id |-> 302], "", <<>>),
                      HashTree(<<>>)>>)>>)

\* plan > thread group > sampler > assertion, each tag with its own enabled
\* attribute
EnabledTexts == {"true", "false"}
EnabledDoc(p, g, h, a) ==
  Ele("jmeterTestPlan", [version |-> "1.2", properties |-> "5.0", jmeter |-> "5.6.3"], "",
      <<HashTree(<<SrcElement("TestPlan", "Plan", p, <<>>),
                   HashTree(<<SrcElement("ThreadGroup", "tg", g, <<>>),
                              HashTree(<<SrcElement("HTTPSamplerProxy", "e1", h, <<>>),
                                         HashTree(<<SrcElement("ResponseAssertion", "c1", a, <<>>),
                                                    HashTree(<<>>)>>)>>)>>)>>)>>)

EnabledDocs ==
  {EnabledDoc(p, g, h, a) : p \in EnabledTexts, g \in EnabledTexts, h \in EnabledTexts, a \in EnabledTexts}

\* the kinds with a default-value constructor
ConstructedKinds == {"ThreadGroup", "HTTPSamplerProxy", "RegexExtractor", "ResponseAssertion"}

\* a plan with one element tag that carries no properties
BareDoc(kind) == SrcDoc(<<SrcElement(kind, "bare", "true", <<>>), HashTree(<<>>)>>)
BareDocs == {BareDoc(kind) : kind \in ConstructedKinds}

\* a well-formed text whose plan tag is followed by no container tag
NoContainerDoc ==
  Ele("jmeterTestPlan", [version |-> "1.2", properties |-> "5.0", jmeter |-> "5.6.3"], "",
      <<HashTree(<<SrcTestPlan>>)>>)

\* a thread group whose container holds n sampler tags e1..en and m container
\* tags, the i-th of which holds the assertion c<i>: pairs first, then the
\* tags that are left over
MismatchDoc(n, m) ==
  LET both == IF n < m THEN n ELSE m
  IN  SrcDoc(<<PlainThreadGroup,
               HashTree(Pairs([i \in 1..both |-> "HTTPSamplerProxy"], [i \in 1..both |-> TRUE], 1)
                        \o [i \in 1..(n - both) |->
                              SrcElement("HTTPSamplerProxy", ElemName(both + i), "true", <<>>)]
                        \o [i \in 1..(m - both) |->
                              HashTree(<<SrcElement("ResponseAssertion", ChildName(both + i), "true", <<>>),
                                         HashTree(<<>>)>>)])>>)

MismatchDocs ==
  {MismatchDoc(nm[1], nm[2]) : nm \in {p \in (1..MaxSiblings) \X (0..MaxSiblings) : p[1] # p[2]}}

\* a thread group with the duration written by the one variant, above a
\* sampler with the port written by the other: the two fields are decoded
\* by parseIntOrStringProp and by parseIntProp with no default applied
NumberTexts == {"5", "0", "-3", "${D}", "abc", "12abc"}
NumberDoc(duration, port) ==
  SrcDoc(<<SrcElement("ThreadGroup", "tg", "true", PropOf(duration, "ThreadGroup.duration")),
           HashTree(<<SrcElement("HTTPSamplerProxy", "e1", "true", PropOf(port, "HTTPSampler.port")),
                      HashTree(<<>>)>>)>>)

NumberDocs ==
  {NumberDoc(d, NoProp) : d \in PropVariants(NumberTexts)}
  \cup {NumberDoc(NoProp, q) : q \in PropVariants(NumberTexts)}

\* an HTTP request argument as JMeter writes it
SrcArgument(name, alwaysEncode) ==
  Ele("elementProp", [name |-> name, elementType |-> "HTTPArgument"], "",
      <<Prop("boolProp", "HTTPArgument.always_encode", BoolToStr(alwaysEncode)),
        Prop("stringProp", "Argument.value", "v" \o name),
        Prop("stringProp", "Argument.metadata", "="),
        Prop("stringProp", "Argument.name", name)>>)

\* a thread group above a sampler with the given arguments
ArgDoc(args) ==
  SrcDoc(<<PlainThreadGroup,
           HashTree(<<SrcElement("HTTPSamplerProxy", "e1", "true",
                        <<Ele("elementProp", [name |-> "HTTPsampler.Arguments", elementType |-> "Arguments"], "",
                              <<Ele("collectionProp", [name |-> "Arguments.arguments"], "",
                                    [i \in 1..Len(args) |-> SrcArgument(args[i].name, args[i].alwaysEncode)])>>)>>),
                      HashTree(<<>>)>>)>>)

ArgNames == {"q", "p"}
MaxArguments == 2
ArgDocs ==
  UNION {{ArgDoc(args) : args \in [1..n -> [name : ArgNames, alwaysEncode : BOOLEAN]]} : n \in 1..MaxArguments}

\* a thread group, a sampler and a regex extractor whose integer fields are
\* all written with the value 0 in tags of the given type
ZeroDoc(carrier) ==
  SrcDoc(<<SrcElement("ThreadGroup", "tg", "true",
                      <<Prop(carrier, "ThreadGroup.num_threads", "0"),
                        Prop(carrier, "ThreadGroup.ramp_time", "0"),
                        LoopBlock(<<Prop(carrier, "LoopController.loops", "0"),
                                    Prop("boolProp", "LoopController.continue_forever", "false")>>)>>),
           HashTree(<<SrcElement("HTTPSamplerProxy", "e1", "true", <<>>),
                      HashTree(<<SrcElement("RegexExtractor", "c1", "true",
                                            <<Prop(carrier, "RegexExtractor.match_number", "0")>>),
                                 HashTree(<<>>)>>)>>)>>)

ZeroDocs == {ZeroDoc(carrier) : carrier \in {"intProp", "stringProp"}}

Docs ==
  StructDocs \cup FieldDocs \cup EnabledDocs \cup BareDocs \cup MismatchDocs \cup NumberDocs
  \cup ArgDocs \cup ZeroDocs \cup {ScenarioDoc, IdDoc, NoContainerDoc}

\* number of elements of the largest input, the plan included
MaxIds == 2 + 2 * MaxSiblings

\* the identities one parse call draws: Date.now() and Math.random() of the
\* call, as the number base + position
IdBases == {0, 100}

\* the stream of a call in which Date.now() does not advance and
\* Math.random() returns each of its values twice in a row
RepeatingIds == [i \in 1..MaxIds |-> 400 + ((i + 1) \div 2)]

IdStreams == {[i \in 1..MaxIds |-> base + i] : base \in IdBases} \cup {RepeatingIds}

\* kinds of the elements of the editor-built trees; serializeElement has no
\* case for IfController and ConstantTimer
WebKinds == {"ThreadGroup", "HTTPSamplerProxy", "TestAction", "JSR223Sampler", "IfController", "ConstantTimer"}

\* the tree the editor holds after it added elements of the given kinds, in
\* this order, to a plan without children
WebTree(kinds) ==
  LET plan == parse(SrcDoc(<<>>), [i \in 1..MaxIds |-> 200 + i])
  IN  [plan EXCEPT !.testPlan.children = [i \in 1..Len(kinds) |-> newElement(kinds[i], 300 + i)]]

WebTrees == UNION {{WebTree(kinds) : kinds \in [1..n -> WebKinds]} : n \in 1..MaxSiblings}

(***************************************************************************)
(* The codec pipeline: an input text is parsed, the tree serialized, the   *)
(* text parsed again and the tree serialized again; an editor-built tree   *)
(* enters at the first serialization.                                      *)
(***************************************************************************)
VARIABLES pc, src, t1, x1, t2, x2

\* The custom editor: the text of the open document, the tree the host last
\* posted to the webview, whether a change of the document still awaits its
\* onDidChangeTextDocument callback, the last message the host handled, and
\* the number of messages handled.
VARIABLES document, shown, dirty, last, handled

\* The test executor (TestExecutor.ts): the process the executor holds (0 for
\* null, else its index in procs), every process spawned so far with its
\* watcher and the promise of its executeTest call, the recent results
\* (newest first), the number of results ever added, and whether a progress
\* callback is installed.
VARIABLES currentProcess, procs, recentResults, added, progressCallback

\* The webview of the custom editor (the script of getHtmlForWebview): its
\* tree, the identity of the selected element (NoId for null), the element
\* the property panel was rendered for, the messages posted to the host and
\* to the webview and not yet handled, the last saveProperty made in the
\* panel, and the number of user actions.
VARIABLES currentTestPlan, selectedElement, panel, toHost, toWeb, saved, edits

codecVars == <<pc, src, t1, x1, t2, x2>>
editorVars == <<document, shown, dirty, last, handled>>
executorVars == <<currentProcess, procs, recentResults, added, progressCallback>>
webviewVars == <<currentTestPlan, selectedElement, panel, toHost, toWeb, saved, edits>>
vars ==
  <<pc, src, t1, x1, t2, x2, document, shown, dirty, last, handled,
    currentProcess, procs, recentResults, added, progressCallback,
    currentTestPlan, selectedElement, panel, toHost, toWeb, saved, edits>>

\* no text yet, no tree yet, no message yet
NoDoc == NoNode
NoTree == [none |-> TRUE]
NoMsg == [type |-> "none"]

\* no editor is open
EditorClosed ==
  document = NoDoc /\ shown = NoTree /\ dirty = FALSE /\ last = NoMsg /\ handled = 0

\* null as an identity, the panel of the test plan properties, no save yet
NoId == 0
NoPanel == [id |-> NoId, at |-> 0]
NoSave == [value |-> "", at |-> 0]

\* no webview is loaded
NoWebview ==
  /\ currentTestPlan = NoTree /\ selectedElement = NoId /\ panel = NoPanel
  /\ toHost = <<>> /\ toWeb = <<>> /\ saved = NoSave /\ edits = 0

\* no executor is constructed
NoExecutor ==
  /\ currentProcess = 0 /\ procs = <<>> /\ recentResults = <<>>
  /\ added = 0 /\ progressCallback = FALSE

Init ==
  /\ \/ pc = "text" /\ src \in Docs /\ t1 = NoTree
     \/ pc = "tree" /\ src = NoDoc /\ t1 \in WebTrees
  /\ x1 = NoDoc
  /\ t2 = NoTree
  /\ x2 = NoDoc
  /\ EditorClosed
  /\ NoExecutor
  /\ NoWebview

Parse1 ==
  /\ pc = "text"
  /\ \E ids \in IdStreams : t1' = parse(src, ids)
  /\ pc' = IF t1' = ParseError THEN "failed" ELSE "tree"
  /\ UNCHANGED <<src, x1, t2, x2>>
  /\ UNCHANGED <<editorVars, executorVars, webviewVars>>

Serialize1 ==
  /\ pc = "tree"
  /\ x1' = serialize(t1)
  /\ pc' = IF x1' = SerializeError THEN "failed" ELSE "text1"
  /\ UNCHANGED <<src, t1, t2, x2>>
  /\ UNCHANGED <<editorVars, executorVars, webviewVars>>

Parse2 ==
  /\ pc = "text1"
  /\ \E ids \in IdStreams : t2' = parse(x1, ids)
  /\ pc' = IF t2' = ParseError THEN "failed" ELSE "tree2"
  /\ UNCHANGED <<src, t1, x1, x2>>
  /\ UNCHANGED <<editorVars, executorVars, webviewVars>>

Serialize2 ==
  /\ pc = "tree2"
  /\ x2' = serialize(t2)
  /\ pc' = IF x2' = SerializeError THEN "failed" ELSE "done"
  /\ UNCHANGED <<src, t1, x1, t2>>
  /\ UNCHANGED <<editorVars, executorVars, webviewVars>>

Next == Parse1 \/ Serialize1 \/ Parse2 \/ Serialize2

Spec == Init /\ [][Next]_vars

(***************************************************************************)
(* The custom editor host (JMeterEditorProvider.ts): updateWebview and the *)
(* handlers of the messages that name an element by its identity.          *)
(***************************************************************************)
\* largest number of messages the host handles in one run
MaxMessages == 2

RECURSIVE PreorderIds(_)
\* the identities of a subtree, parent first
PreorderIds(e) ==
  LET RECURSIVE Below(_)
      Below(i) == IF i > Len(e.children) THEN <<>>
                  ELSE PreorderIds(e.children[i]) \o Below(i + 1)
  IN  <<e.id>> \o Below(1)

\* the identities of the elements of a tree
IdsOf(tree) == {PreorderIds(tree.testPlan)[i] : i \in 1..TreeSize(tree.testPlan)}

RECURSIVE findElementById(_, _)
\* the first element with the identity, parents before children; Null when
\* there is none
findElementById(elements, id) ==
  IF elements = <<>> THEN Null
  ELSE IF Head(elements).id = id THEN Head(elements)
  ELSE LET found == findElementById(Head(elements).children, id)
       IN  IF found # Null THEN found ELSE findElementById(Tail(elements), id)

RECURSIVE removeElementById(_, _)
\* the elements after the splice that removes the first element with the
\* identity
removeElementById(elements, id) ==
  IF elements = <<>> THEN <<>>
  ELSE IF Head(elements).id = id THEN Tail(elements)
  ELSE IF findElementById(Head(elements).children, id) # Null
       THEN <<[Head(elements) EXCEPT !.children = removeElementById(@, id)]>> \o Tail(elements)
       ELSE <<Head(elements)>> \o removeElementById(Tail(elements), id)

\* element.enabled = !element.enabled
Toggled(element) == [element EXCEPT !.enabled = ~@]

\* element[property] = value
Assigned(element, property, value) ==
  [f \in DOMAIN element \cup {property} |-> IF f = property THEN value ELSE element[f]]

RECURSIVE WithElement(_, _, _)
\* the elements in which the object findElementById returns is the changed
\* one (the handlers change the object in place)
WithElement(elements, id, changed) ==
  IF elements = <<>> THEN <<>>
  ELSE IF Head(elements).id = id THEN <<changed>> \o Tail(elements)
  ELSE IF findElementById(Head(elements).children, id) # Null
       THEN <<[Head(elements) EXCEPT !.children = WithElement(@, id, changed)]>> \o Tail(elements)
       ELSE <<Head(elements)>> \o WithElement(Tail(elements), id, changed)

\* an update that leaves the document as it is
updateDocumentKeeps(text, testPlan) == text

\* updateDocument: the text of the document after the edit; a serializer
\* that throws leaves the document as it is
updateDocument(text, testPlan) ==
  LET xml == serialize(testPlan)
  IN  IF xml = SerializeError THEN text ELSE xml

\* the texts an editor is opened on
EditorDocs == {ScenarioDoc, IdDoc, EnabledDoc("true", "true", "false", "true")}

\* the properties and the value of the updateProperty messages
EditedProperties == {"name", "domain"}
EditedValue == "edited"

\* the record of a handled message: the name of the element of the shown
\* tree the message named, the name of the element the host found ("" for
\* null), and whether updateDocument was called
Handled(type, elementId, found, rewritten) ==
  [type |-> type, elementId |-> elementId,
   wanted |-> findElementById(<<shown.testPlan>>, elementId).name,
   found |-> IF found = Null THEN "" ELSE found.name,
   rewritten |-> rewritten]

EditorInit ==
  /\ pc = "editor" /\ src = NoDoc /\ t1 = NoTree /\ x1 = NoDoc /\ t2 = NoTree /\ x2 = NoDoc
  /\ document \in EditorDocs
  /\ shown = NoTree /\ dirty = FALSE /\ last = NoMsg /\ handled = 0
  /\ NoExecutor
  /\ NoWebview

\* updateWebview, called when the editor is resolved and on every change of
\* the document
UpdateWebview ==
  /\ pc = "editor"
  /\ shown = NoTree \/ dirty
  /\ \E ids \in IdStreams :
       \E testPlan \in {parse(document, ids)} :
         shown' = IF testPlan = ParseError THEN shown ELSE testPlan
  /\ dirty' = FALSE
  /\ UNCHANGED <<document, last, handled>>
  /\ UNCHANGED <<codecVars, executorVars, webviewVars>>

\* toggleElementEnabled: the document is parsed anew, the element looked up
\* in the new tree by the identity of the message, and the document
\* rewritten when the lookup finds one
ToggleEnabled ==
  /\ pc = "editor" /\ shown # NoTree /\ handled < MaxMessages
  /\ \E elementId \in IdsOf(shown), ids \in IdStreams :
       \E testPlan \in {parse(document, ids)} :
         \E element \in {findElementById(<<testPlan.testPlan>>, elementId)} :
           /\ document' =
                IF element # Null
                THEN updateDocument(document,
                       [testPlan EXCEPT
                          !.testPlan = WithElement(<<testPlan.testPlan>>, elementId, Toggled(element))[1]])
                ELSE document
           /\ dirty' = (dirty \/ element # Null)
           /\ last' = Handled("toggleEnabled", elementId, element, element # Null)
  /\ handled' = handled + 1
  /\ UNCHANGED shown
  /\ UNCHANGED <<codecVars, executorVars, webviewVars>>

\* deleteElement: removeElementById is called on [plan, ...plan.children],
\* so the identity of the plan splices that array and leaves the tree as it
\* is
DeleteElement ==
  /\ pc = "editor" /\ shown # NoTree /\ handled < MaxMessages
  /\ \E elementId \in IdsOf(shown), ids \in IdStreams :
       \E testPlan \in {parse(document, ids)} :
         \E element \in {findElementById(<<testPlan.testPlan>>, elementId)} :
           /\ document' =
                IF element = Null THEN document
                ELSE IF testPlan.testPlan.id = elementId THEN updateDocument(document, testPlan)
                ELSE updateDocument(document,
                       [testPlan EXCEPT !.testPlan.children = removeElementById(@, elementId)])
           /\ dirty' = (dirty \/ element # Null)
           /\ last' = Handled("deleteElement", elementId, element, element # Null)
  /\ handled' = handled + 1
  /\ UNCHANGED shown
  /\ UNCHANGED <<codecVars, executorVars, webviewVars>>

\* updateElementProperty
UpdateProperty ==
  /\ pc = "editor" /\ shown # NoTree /\ handled < MaxMessages
  /\ \E elementId \in IdsOf(shown), ids \in IdStreams, property \in EditedProperties :
       \E testPlan \in {parse(document, ids)} :
         \E element \in {findElementById(<<testPlan.testPlan>>, elementId)} :
           /\ document' =
                IF element # Null
                THEN updateDocument(document,
                       [testPlan EXCEPT
                          !.testPlan = WithElement(<<testPlan.testPlan>>, elementId,
                                                   Assigned(element, property, EditedValue))[1]])
                ELSE document
           /\ dirty' = (dirty \/ element # Null)
           /\ last' = Handled("updateProperty", elementId, element, element # Null)
  /\ handled' = handled + 1
  /\ UNCHANGED shown
  /\ UNCHANGED <<codecVars, executorVars, webviewVars>>

EditorNext == UpdateWebview \/ ToggleEnabled \/ DeleteElement \/ UpdateProperty

EditorSpec == EditorInit /\ [][EditorNext]_vars

(***************************************************************************)
(* The test executor (TestExecutor.ts) under the commands jmeter.runTest   *)
(* and jmeter.stopTest (extension.ts), with the events of the spawned      *)
(* processes, of the 1-second timer and of the results-file watcher.       *)
(***************************************************************************)
\* the number of executeTest calls that spawn
MaxRuns == 2

\* the length addRecentResult cuts the list to
MaxRecent == 10

\* the exit codes of a process that ran, and the code of the close event
\* that follows a failed spawn
ExitCodes == {0, 1}
SpawnFailureCode == -2
\* no close event yet
NoCode == -1

\* the result of the run-th spawned process (0: loaded from the store), the
\* stamp-th result ever added
Result(run, stamp) == [run |-> run, stamp |-> stamp]

\* the list loadRecentResults reads: what saveRecentResults wrote last
StoredResults(n) == [i \in 1..n |-> Result(0, n - i + 1)]
StoredLengths == {0, MaxRecent - 1, MaxRecent}

\* unshift without the cut
addRecentResultUncapped(results, result) == <<result>> \o results

\* addRecentResult: unshift, then slice(0, 10) when longer than 10
addRecentResult(results, result) ==
  LET unshifted == <<result>> \o results
  IN  IF Len(unshifted) > MaxRecent THEN SubSeq(unshifted, 1, MaxRecent) ELSE unshifted

\* resolve and reject of a promise: only a pending promise settles
settle(promise, outcome) == IF promise = "pending" THEN outcome ELSE promise

\* every close resolves
closeOutcomeAlwaysResolved(code) == "resolved"

\* the close handler: resolve on code === 0, reject otherwise
closeOutcome(code) == IF code = 0 THEN "resolved" ELSE "rejected"

\* jtlWatcher.close() when a watcher is set
closeWatcher(watcher) == IF watcher = "open" THEN "closed" ELSE watcher

\* the process spawn returns: running, or failing to start (its error event
\* is emitted on the next tick)
Spawned(state) ==
  [state |-> state, killed |-> FALSE, code |-> NoCode, watcher |-> "timer",
   promise |-> "pending", reported |-> FALSE, late |-> FALSE]

\* isRunning
isRunning == currentProcess # 0

\* no error event of a failed spawn is due on the next tick
NoTick == \A p \in 1..Len(procs) : procs[p].state # "failing"

ExecutorInit ==
  /\ pc = "executor" /\ src = NoDoc /\ t1 = NoTree /\ x1 = NoDoc /\ t2 = NoTree /\ x2 = NoDoc
  /\ EditorClosed
  /\ currentProcess = 0
  /\ procs = <<>>
  /\ \E n \in StoredLengths : recentResults = StoredResults(n) /\ added = n
  /\ progressCallback = FALSE
  /\ NoWebview

\* jmeter.runTest: nothing while isRunning(); else executeTest installs the
\* progress callback, throws when JMeter is not found, and otherwise spawns,
\* keeps the process in currentProcess and starts the 1-second timer
RunTest ==
  /\ pc = "executor"
  /\ NoTick
  /\ Len(procs) < MaxRuns
  /\ ~isRunning
  /\ progressCallback' = TRUE
  /\ \E jmeterPath \in BOOLEAN :
       IF jmeterPath
       THEN \E state \in {"alive", "failing"} :
              /\ procs' = Append(procs, Spawned(state))
              /\ currentProcess' = Len(procs) + 1
       ELSE UNCHANGED <<procs, currentProcess>>
  /\ UNCHANGED <<recentResults, added>>
  /\ UNCHANGED <<codecVars, editorVars, webviewVars>>

\* jmeter.stopTest and the cancellation of the progress notification:
\* stopTest signals the process and forgets it
StopTest ==
  /\ pc = "executor"
  /\ NoTick
  /\ isRunning
  /\ procs' = [procs EXCEPT ![currentProcess].killed = TRUE]
  /\ currentProcess' = 0
  /\ UNCHANGED <<recentResults, added, progressCallback>>
  /\ UNCHANGED <<codecVars, editorVars, webviewVars>>

\* the setTimeout callback of the call that spawned p: the watcher is opened
\* when the results file exists
WatcherTimer(p) ==
  /\ pc = "executor"
  /\ NoTick
  /\ procs[p].watcher = "timer"
  /\ \E exists \in BOOLEAN :
       procs' = [procs EXCEPT ![p].watcher = IF exists THEN "open" ELSE "none"]
  /\ UNCHANGED <<currentProcess, recentResults, added, progressCallback>>
  /\ UNCHANGED <<codecVars, editorVars, webviewVars>>

\* a change of the results file seen by the watcher of p: parseJTLProgress
\* returns early on fewer than 2 lines and else invokes the installed callback
JtlChange(p) ==
  /\ pc = "executor"
  /\ NoTick
  /\ procs[p].watcher = "open"
  /\ \E lines \in 1..2 :
       procs' = IF lines < 2 \/ ~progressCallback
                THEN procs
                ELSE [procs EXCEPT ![p].reported = TRUE,
                                   ![p].late = @ \/ procs[p].promise # "pending"]
  /\ UNCHANGED <<currentProcess, recentResults, added, progressCallback>>
  /\ UNCHANGED <<codecVars, editorVars, webviewVars>>

\* the close handler of p
ProcessClose(p) ==
  /\ pc = "executor"
  /\ NoTick
  /\ procs[p].state \in {"alive", "errored"}
  /\ \E code \in IF procs[p].state = "alive" THEN ExitCodes ELSE {SpawnFailureCode} :
       /\ procs' = [procs EXCEPT ![p].state = "closed",
                                 ![p].code = code,
                                 ![p].watcher = closeWatcher(@),
                                 ![p].promise = settle(@, closeOutcome(code))]
       /\ IF code = 0
          THEN /\ recentResults' = addRecentResult(recentResults, Result(p, added + 1))
               /\ added' = added + 1
          ELSE UNCHANGED <<recentResults, added>>
  /\ currentProcess' = 0
  /\ UNCHANGED progressCallback
  /\ UNCHANGED <<codecVars, editorVars, webviewVars>>

\* the error handler of p, on the tick after a failed spawn
ProcessError(p) ==
  /\ pc = "executor"
  /\ procs[p].state = "failing"
  /\ procs' = [procs EXCEPT ![p].state = "errored",
                            ![p].watcher = closeWatcher(@),
                            ![p].promise = settle(@, "rejected")]
  /\ currentProcess' = 0
  /\ UNCHANGED <<recentResults, added, progressCallback>>
  /\ UNCHANGED <<codecVars, editorVars, webviewVars>>

ExecutorNext ==
  \/ RunTest
  \/ StopTest
  \/ \E p \in 1..Len(procs) : WatcherTimer(p)
  \/ \E p \in 1..Len(procs) : JtlChange(p)
  \/ \E p \in 1..Len(procs) : ProcessClose(p)
  \/ \E p \in 1..Len(procs) : ProcessError(p)

ExecutorSpec == ExecutorInit /\ [][ExecutorNext]_vars

(***************************************************************************)
(* Synchronisation of the webview with the document: the webview script    *)
(* (message handler, selectElement, saveProperty) and the host handlers    *)
(* of resolveCustomTextEditor (updateWebview, 'ready', 'update').          *)
(***************************************************************************)
\* the number of user actions in the webview
MaxEdits == 3

\* the texts the editor is opened on
SyncDocs == {ScenarioDoc}

\* the property the panel saves and the values typed
SavedProperty == "name"
SavedValues == {"first", "second"}

\* the messages
Ready == [type |-> "ready", data |-> NoTree]
Update(testPlan) == [type |-> "update", data |-> testPlan]

RECURSIVE Preorder(_)
\* the elements of a subtree, parents before children
Preorder(e) ==
  LET RECURSIVE Below(_)
      Below(i) == IF i > Len(e.children) THEN <<>>
                  ELSE Preorder(e.children[i]) \o Below(i + 1)
  IN  <<e>> \o Below(1)

\* the place of the first element with the identity in the tree, 0 when
\* there is none
PositionOf(tree, id) ==
  LET ids == PreorderIds(tree.testPlan)
      at == {i \in 1..Len(ids) : ids[i] = id}
  IN  IF at = {} THEN 0 ELSE CHOOSE i \in at : \A j \in at : i <= j

\* selectedElement ? selectedElement.id : null
IdOf(element) == IF element = Null THEN NoId ELSE element.id

\* the 'update' case of the message handler: the tree is replaced, render
\* shows the test plan properties only when nothing was selected (the panel
\* of a selected element is left as it is), then the selection is looked up
\* in the new tree by the previous identity
OnUpdate(data) ==
  LET previousSelectedId == selectedElement
  IN  /\ currentTestPlan' = data
      /\ panel' = IF selectedElement = NoId THEN NoPanel ELSE panel
      /\ selectedElement' =
           IF previousSelectedId # NoId
           THEN IdOf(findElementById(data.testPlan.children, previousSelectedId))
           ELSE NoId

SyncInit ==
  /\ pc = "sync" /\ src = NoDoc /\ t1 = NoTree /\ x1 = NoDoc /\ t2 = NoTree /\ x2 = NoDoc
  /\ NoExecutor
  /\ document \in SyncDocs
  /\ shown = NoTree /\ dirty = TRUE /\ last = NoMsg /\ handled = 0
  /\ currentTestPlan = NoTree /\ selectedElement = NoId /\ panel = NoPanel
  /\ toHost = <<Ready>> /\ toWeb = <<>> /\ saved = NoSave /\ edits = 0

\* updateWebview, called at the end of resolveCustomTextEditor and by
\* onDidChangeTextDocument: the document is parsed and the tree posted
HostUpdateWebview ==
  /\ pc = "sync"
  /\ dirty
  /\ \E ids \in IdStreams :
       \E testPlan \in {parse(document, ids)} :
         IF testPlan = ParseError
         THEN UNCHANGED <<shown, toWeb>>
         ELSE shown' = testPlan /\ toWeb' = Append(toWeb, Update(testPlan))
  /\ dirty' = FALSE
  /\ UNCHANGED <<document, last, handled>>
  /\ UNCHANGED <<currentTestPlan, selectedElement, panel, toHost, saved, edits>>
  /\ UNCHANGED <<codecVars, executorVars>>

\* onDidReceiveMessage, case 'ready': updateWebview
HostReady ==
  /\ pc = "sync"
  /\ toHost # <<>> /\ Head(toHost).type = "ready"
  /\ toHost' = Tail(toHost)
  /\ \E ids \in IdStreams :
       \E testPlan \in {parse(document, ids)} :
         IF testPlan = ParseError
         THEN UNCHANGED <<shown, toWeb>>
         ELSE shown' = testPlan /\ toWeb' = Append(toWeb, Update(testPlan))
  /\ UNCHANGED <<document, dirty, last, handled>>
  /\ UNCHANGED <<currentTestPlan, selectedElement, panel, saved, edits>>
  /\ UNCHANGED <<codecVars, executorVars>>

\* onDidReceiveMessage, case 'update': updateDocument replaces the text of
\* the document, which raises onDidChangeTextDocument
HostUpdate ==
  /\ pc = "sync"
  /\ toHost # <<>> /\ Head(toHost).type = "update"
  /\ toHost' = Tail(toHost)
  /\ document' = updateDocument(document, Head(toHost).data)
  /\ dirty' = (dirty \/ serialize(Head(toHost).data) # SerializeError)
  /\ UNCHANGED <<shown, last, handled>>
  /\ UNCHANGED <<currentTestPlan, selectedElement, panel, toWeb, saved, edits>>
  /\ UNCHANGED <<codecVars, executorVars>>

\* the message handler of the webview
WebUpdate ==
  /\ pc = "sync"
  /\ toWeb # <<>>
  /\ toWeb' = Tail(toWeb)
  /\ OnUpdate(Head(toWeb).data)
  /\ UNCHANGED <<toHost, saved, edits>>
  /\ UNCHANGED editorVars
  /\ UNCHANGED <<codecVars, executorVars>>

\* selectElement(id), a click on an item of the rendered tree (NoId: the
\* item of the test plan)
SelectElement(id) ==
  /\ pc = "sync"
  /\ edits < MaxEdits
  /\ currentTestPlan # NoTree
  /\ \E element \in {findElementById(currentTestPlan.testPlan.children, id)} :
       /\ selectedElement' = IdOf(element)
       /\ panel' = IF id = NoId THEN NoPanel
                   ELSE IF element # Null THEN [id |-> id, at |-> PositionOf(currentTestPlan, id)]
                   ELSE panel
  /\ edits' = edits + 1
  /\ UNCHANGED <<currentTestPlan, toHost, toWeb, saved>>
  /\ UNCHANGED editorVars
  /\ UNCHANGED <<codecVars, executorVars>>

\* saveProperty(elementId, property, value), raised by an input of the panel
\* with the identity the panel was rendered with
SaveProperty(value) ==
  /\ pc = "sync"
  /\ edits < MaxEdits
  /\ panel # NoPanel
  /\ \E element \in {findElementById(currentTestPlan.testPlan.children, panel.id)} :
       IF element # Null
       THEN /\ currentTestPlan' =
                 [currentTestPlan EXCEPT !.testPlan.children =
                    WithElement(@, panel.id, Assigned(element, SavedProperty, value))]
            /\ toHost' = Append(toHost, Update(currentTestPlan'))
       ELSE UNCHANGED <<currentTestPlan, toHost>>
  /\ saved' = [value |-> value, at |-> panel.at]
  /\ edits' = edits + 1
  /\ UNCHANGED <<selectedElement, panel, toWeb>>
  /\ UNCHANGED editorVars
  /\ UNCHANGED <<codecVars, executorVars>>

\* the identities in the onclick handlers of the rendered tree items
TreeItems ==
  IF currentTestPlan = NoTree THEN {}
  ELSE {PreorderIds(currentTestPlan.testPlan)[i] : i \in 2..TreeSize(currentTestPlan.testPlan)}

SyncNext ==
  \/ HostUpdateWebview
  \/ HostReady
  \/ HostUpdate
  \/ WebUpdate
  \/ \E id \in {NoId} \cup TreeItems : SelectElement(id)
  \/ \E value \in SavedValues : SaveProperty(value)

SyncSpec == SyncInit /\ [][SyncNext]_vars

\* the steps of the four handlers, told by what they consume: the pending
\* change event (HostUpdateWebview), the head of the messages to the host
\* (HostReady, HostUpdate) and the head of the messages to the webview
\* (WebUpdate)
HandlesChange == pc = "sync" /\ dirty /\ dirty' = FALSE
HandlesReady ==
  pc = "sync" /\ toHost # <<>> /\ Head(toHost).type = "ready" /\ toHost' = Tail(toHost)
HandlesEdit ==
  pc = "sync" /\ toHost # <<>> /\ Head(toHost).type = "update" /\ toHost' = Tail(toHost)
HandlesUpdate == pc = "sync" /\ toWeb # <<>> /\ toWeb' = Tail(toWeb)

\* the event loops of the host and of the webview run every handler whose
\* event or message is pending
SyncLiveSpec ==
  /\ SyncSpec
  /\ WF_dirty(HandlesChange) /\ WF_toHost(HandlesReady) /\ WF_toHost(HandlesEdit)
  /\ WF_toWeb(HandlesUpdate)

(***************************************************************************)
(* Vocabulary of the properties.                                           *)
(***************************************************************************)
\* the kinds parseElement has a case for
DecodedKinds ==
  ThreadGroupClasses \cup
  {"HTTPSamplerProxy", "RegexExtractor", "ResponseAssertion", "HeaderManager",
   "Arguments", "JSR223Sampler", "JSR223PostProcessor", "BeanShellAssertion",
   "ResultCollector", "TestAction", "ConstantThroughputTimer"}

RECURSIVE StripIds(_)
\* an element without the identities of its subtree
StripIds(e) ==
  [e EXCEPT !.id = 0, !.children = [i \in 1..Len(e.children) |-> StripIds(e.children[i])]]

\* structural equality of two parse results, identities excluded
SameTree(a, b) ==
  /\ a # ParseError /\ b # ParseError
  /\ [a EXCEPT !.testPlan = StripIds(a.testPlan)] = [b EXCEPT !.testPlan = StripIds(b.testPlan)]

RECURSIVE Shape(_)
\* kinds, names and child order of a subtree
Shape(e) ==
  [type |-> e.type, name |-> e.name, children |-> [i \in 1..Len(e.children) |-> Shape(e.children[i])]]

RECURSIVE Kinds(_)
\* the kinds that occur in a subtree
Kinds(e) == {e.type} \cup UNION {Kinds(e.children[i]) : i \in 1..Len(e.children)}

RECURSIVE Names(_)
\* the names that occur in a subtree
Names(e) == {e.name} \cup UNION {Names(e.children[i]) : i \in 1..Len(e.children)}

ElementTags(container) == SelectSeq(container.kids, LAMBDA k : k.tag # "hashTree")
ContainerTags(container) == SelectSeq(container.kids, LAMBDA k : k.tag = "hashTree")

RECURSIVE CountElementTags(_)
\* number of element tags in a container and in the containers below it
CountElementTags(container) ==
  Len(ElementTags(container))
  + LET cs == ContainerTags(container)
        RECURSIVE Sum(_)
        Sum(i) == IF i > Len(cs) THEN 0 ELSE CountElementTags(cs[i]) + Sum(i + 1)
    IN  Sum(1)

\* the children container of the plan of a text
PlanContainer(doc) == ChildrenNamed(ChildrenNamed(doc, "hashTree")[1], "hashTree")[1]

\* the first element tag of the plan's container (the thread group of the
\* generated texts) and the container paired with it
FirstTag(doc) == ElementTags(PlanContainer(doc))[1]
FirstContainer(doc) == ContainerTags(PlanContainer(doc))[1]

\* the pipeline started from a text and the stage has been reached
Parsed1 == src # NoDoc /\ pc \in {"tree", "text1", "tree2", "done"}
Serialized1 == pc \in {"text1", "tree2", "done"}
Parsed2 == pc \in {"tree2", "done"}

\* parse kept every element tag of the text
NothingDropped == TreeSize(t1.testPlan) = 1 + CountElementTags(PlanContainer(src))

\* names of the element tags of a container, in document order
TagNames(container) == [i \in 1..Len(ElementTags(container)) |-> ElementTags(container)[i].testname]
ChildNames(e) == [i \in 1..Len(e.children) |-> e.children[i].name]

\* the siblings below the thread group of a structural text, as written and
\* as decoded
SrcSiblings == ElementTags(FirstContainer(src))
SrcContainers == ContainerTags(FirstContainer(src))
TreeSiblings == t1.testPlan.children[1].children

(***************************************************************************)
(* Properties.                                                             *)
(***************************************************************************)
\* C1: for every text that parse accepts without dropping an element,
\* parse(serialize(parse(text))) is structurally equal to parse(text):
\* kinds, fields, enabled flags and child order, identities excluded.
C1_RoundTripIdentity ==
  (Parsed1 /\ Parsed2 /\ NothingDropped) => SameTree(t2, t1)

\* C2: in a container with element tags e0..e(n-1) and container tags
\* c0..c(n-1), the children reconstructed from ci are attached to ei and to
\* no other element: a decoded ei has no child that is not from ci, and
\* every element of ci that is in the tree is a child of ei.
C2_PositionalPairing ==
  (Parsed1 /\ src \in StructDocs) =>
    \A i \in 1..Len(SrcSiblings) :
      SrcSiblings[i].testclass \in DecodedKinds =>
        \E j \in 1..Len(TreeSiblings) :
          /\ TreeSiblings[j].name = SrcSiblings[i].testname
          /\ \A c \in 1..Len(TreeSiblings[j].children) :
               \E d \in 1..Len(TagNames(SrcContainers[i])) :
                 TreeSiblings[j].children[c].name = TagNames(SrcContainers[i])[d]
          /\ \A d \in 1..Len(TagNames(SrcContainers[i])) :
               TagNames(SrcContainers[i])[d] \in Names(t1.testPlan) =>
                 \E c \in 1..Len(TreeSiblings[j].children) :
                   TreeSiblings[j].children[c].name = TagNames(SrcContainers[i])[d]

\* C3: parse returns the children of a container in the document order of
\* their element tags, and parse(serialize(x)) has at every node the
\* children of x in the order of x when x holds supported kinds only.
C3_ChildOrder ==
  /\ (Parsed1 /\ src \in StructDocs) =>
       ChildNames(t1.testPlan.children[1]) =
         TagNames([kids |-> SelectSeq(SrcSiblings, LAMBDA k : k.testclass \in DecodedKinds)])
  /\ (Parsed2 /\ Kinds(t1.testPlan) \subseteq (EncodedKinds \cap DecodedKinds) \cup {"TestPlan"}) =>
       Shape(t2.testPlan) = Shape(t1.testPlan)

\* C4: serialize(parse(serialize(parse(text)))) equals serialize(parse(text))
\* for every well-formed text.
C4_IdempotentReserialize ==
  (src # NoDoc /\ pc = "done") => x2 = x1

\* C5: element tags [A(known), X(unknown), B(known)] with containers
\* [ca, cx, cb] decode to exactly [A with ca's children, B with cb's
\* children]; nothing of X or cx is in the tree.
C5_UnknownKindDropping ==
  (/\ Parsed1 /\ src \in StructDocs /\ Len(SrcSiblings) = 3
   /\ SrcSiblings[1].testclass \in DecodedKinds
   /\ SrcSiblings[2].testclass \notin DecodedKinds
   /\ SrcSiblings[3].testclass \in DecodedKinds) =>
    /\ ChildNames(t1.testPlan.children[1]) = <<SrcSiblings[1].testname, SrcSiblings[3].testname>>
    /\ ChildNames(TreeSiblings[1]) = TagNames(SrcContainers[1])
    /\ ChildNames(TreeSiblings[2]) = TagNames(SrcContainers[3])
    /\ \A i \in 1..Len(ElementTags(SrcContainers[2])) :
         ElementTags(SrcContainers[2])[i].testname \notin Names(t1.testPlan)

\* C6: a recognised element, whatever its kind, is never returned without
\* children while its paired container holds recognised elements.
C6_ChildrenOfEveryKind ==
  (Parsed1 /\ src \in StructDocs) =>
    \A i \in 1..Len(SrcSiblings) :
      (/\ SrcSiblings[i].testclass \in DecodedKinds
       /\ \E c \in 1..Len(ElementTags(SrcContainers[i])) :
            ElementTags(SrcContainers[i])[c].testclass \in DecodedKinds) =>
        \A j \in 1..Len(TreeSiblings) :
          TreeSiblings[j].name = SrcSiblings[i].testname => TreeSiblings[j].children # <<>>

\* C7: the scenario text decodes into thread group > sampler > assertion,
\* and the tree parsed from its serialization reports numThreads = 3,
\* rampTime = 5, loops = 2, method = GET, domain = api.example.com,
\* path = /ping, testStrings = ["200"].
C7_Scenario ==
  (src = ScenarioDoc /\ Parsed2) =>
    /\ Shape(t1.testPlan) =
         [type |-> "TestPlan", name |-> "Plan", children |->
           <<[type |-> "ThreadGroup", name |-> "Users", children |->
               <<[type |-> "HTTPSamplerProxy", name |-> "ping", children |->
                   <<[type |-> "ResponseAssertion", name |-> "ok", children |-> <<>>]>>]>>]>>]
    /\ Len(t2.testPlan.children) = 1
    /\ Len(t2.testPlan.children[1].children) = 1
    /\ Len(t2.testPlan.children[1].children[1].children) = 1
    /\ LET tg == t2.testPlan.children[1]
           sampler == tg.children[1]
           assertion == sampler.children[1]
       IN  /\ tg.numThreads = Num(3)
           /\ tg.rampTime = Num(5)
           /\ tg.loopController.loops = Num(2)
           /\ sampler.method = "GET"
           /\ sampler.domain = "api.example.com"
           /\ sampler.path = "/ping"
           /\ assertion.testStrings = <<"200">>

C7_Witness == src = ScenarioDoc /\ pc = "done" /\ TreeSize(t2.testPlan) = 4

\* the loop-controller block of the first element tag of the text, and its
\* loop-count property whatever tag type carries it
SrcLoopBlock == FindBy(ChildrenNamed(FirstTag(src), "elementProp"), "elementType", "LoopController")
SrcLoopsProp == FindBy(SrcLoopBlock.kids, "name", "LoopController.loops")

\* C8: a loop count written as ${LOOP_COUNT} decodes to that string whatever
\* tag type carries it, is serialized as that text, and is that string
\* again after parse(serialize(parse(text))).
C8_LoopCountExpression ==
  (src \in FieldDocs /\ SrcLoopsProp.text = "${LOOP_COUNT}") =>
    /\ Parsed1 => t1.testPlan.children[1].loopController.loops = Str("${LOOP_COUNT}")
    /\ Serialized1 =>
         FindBy(FindBy(ChildrenNamed(FirstTag(x1), "elementProp"), "elementType", "LoopController").kids,
                "name", "LoopController.loops").text = "${LOOP_COUNT}"
    /\ Parsed2 => t2.testPlan.children[1].loopController.loops = Str("${LOOP_COUNT}")

\* C9 as stated: a thread group without a loop-controller block, or with a
\* block without a loop count, decodes to loops = 1 and continueForever =
\* false, without an error.
C9_DefaultOnAbsence ==
  (Parsed1 /\ src \in FieldDocs /\ (SrcLoopBlock = NoNode \/ SrcLoopsProp = NoNode)) =>
    /\ t1 # ParseError
    /\ t1.testPlan.children[1].loopController = [loops |-> Num(1), continueForever |-> FALSE]

\* C9 amended: without a loop-controller block the thread group decodes to
\* loops = 1 and continueForever = false; with a block that has no loop
\* count it decodes to loops = 1 and continueForever as the block's own
\* continue_forever property says (false when the block has none); no error
\* is raised.
C9_DefaultOnAbsenceAmended ==
  (Parsed1 /\ src \in FieldDocs /\ (SrcLoopBlock = NoNode \/ SrcLoopsProp = NoNode)) =>
    /\ t1 # ParseError
    /\ t1.testPlan.children[1].loopController.loops = Num(1)
    /\ t1.testPlan.children[1].loopController.continueForever =
         (/\ SrcLoopBlock # NoNode
          /\ FindBy(ChildrenNamed(SrcLoopBlock, "boolProp"), "name", "LoopController.continue_forever").text = "true")

C9_Witness ==
  /\ pc = "tree" /\ src \in FieldDocs
  /\ SrcLoopBlock # NoNode /\ SrcLoopsProp = NoNode
  /\ t1.testPlan.children[1].loopController = [loops |-> Num(1), continueForever |-> TRUE]

\* C10: serialize fails on a tree that holds an element whose kind has no
\* encoder; it returns no text from which that element is missing.
C10_UnencodableKindFails ==
  (Serialized1 /\ ~(Kinds(t1.testPlan) \subseteq EncodedKinds \cup {"TestPlan"})) => x1 = SerializeError

RECURSIVE EmitsChildren(_, _)
\* the tags of a container are, child by child in stored order, the element
\* tag of the child followed by one container tag that holds the child's own
\* children in the same way
EmitsChildren(kidTags, children) ==
  /\ Len(kidTags) = 2 * Len(children)
  /\ \A i \in 1..Len(children) :
       /\ kidTags[2 * i - 1].tag = children[i].type
       /\ kidTags[2 * i - 1].testname = children[i].name
       /\ kidTags[2 * i].tag = "hashTree"
       /\ EmitsChildren(kidTags[2 * i].kids, children[i].children)

\* C11: in every container serialize emits, element tags and container tags
\* strictly alternate beginning with an element tag: each child gives one
\* element tag immediately followed by one container tag, in stored child
\* order, depth first.
C11_SerializerAlternation ==
  (Serialized1 /\ x1 # SerializeError) =>
    /\ Len(x1.kids) = 1
    /\ Len(x1.kids[1].kids) = 2
    /\ x1.kids[1].kids[1].tag = "TestPlan"
    /\ x1.kids[1].kids[2].tag = "hashTree"
    /\ EmitsChildren(x1.kids[1].kids[2].kids, t1.testPlan.children)

\* the identities of a tree are the first ones of one stream of generateId,
\* in the order of the calls
FreshIds(tree) ==
  \E ids \in IdStreams : PreorderIds(tree.testPlan) = SubSeq(ids, 1, TreeSize(tree.testPlan))

\* C12: the text serialize returns does not depend on the identities of the
\* tree (no identity is written), and every identity of a parsed tree is
\* generated during that parse, whatever the text or the serialized tree
\* carried.
C12_IdentityNeverPersisted ==
  /\ Serialized1 => x1 = serialize([t1 EXCEPT !.testPlan = StripIds(t1.testPlan)])
  /\ Parsed1 => FreshIds(t1)
  /\ Parsed2 => FreshIds(t2)

\* a tree with editor identities was serialized and the text parsed into a
\* tree with elements
C12_Witness ==
  /\ pc = "tree2" /\ src = NoDoc
  /\ \E i \in 1..Len(t1.testPlan.children) : t1.testPlan.children[i].id > 300
  /\ Len(t2.testPlan.children) > 0

\* C13: no two elements of the tree one parse call returns, the plan
\* included, have the same identity.
C13_UniqueIdentities ==
  /\ Parsed1 => Cardinality({PreorderIds(t1.testPlan)[i] : i \in 1..TreeSize(t1.testPlan)})
                  = TreeSize(t1.testPlan)
  /\ Parsed2 => Cardinality({PreorderIds(t2.testPlan)[i] : i \in 1..TreeSize(t2.testPlan)})
                  = TreeSize(t2.testPlan)

RECURSIVE EnabledFlags(_)
\* the enabled flags of a subtree, parent first
EnabledFlags(e) ==
  LET RECURSIVE Below(_)
      Below(i) == IF i > Len(e.children) THEN <<>>
                  ELSE EnabledFlags(e.children[i]) \o Below(i + 1)
  IN  <<e.enabled>> \o Below(1)

RECURSIVE SrcEnabledFlags(_)
\* the enabled attributes of the element tags of a chain of containers, as
\* flags, outermost first
SrcEnabledFlags(container) ==
  IF ElementTags(container) = <<>> THEN <<>>
  ELSE <<ElementTags(container)[1].enabled # "false">>
       \o SrcEnabledFlags(ContainerTags(container)[1])

\* C14: an element whose tag carries enabled="false" is in the parsed tree
\* with enabled = false and with its subtree, serialize emits it and its
\* subtree, and every element has the same enabled flag after serialize
\* followed by parse.
C14_DisabledRetained ==
  src \in EnabledDocs =>
    /\ Parsed1 => /\ TreeSize(t1.testPlan) = 4
                  /\ EnabledFlags(t1.testPlan) = SrcEnabledFlags(ChildrenNamed(src, "hashTree")[1])
    /\ Serialized1 => /\ x1 # SerializeError
                      /\ SrcEnabledFlags(PlanContainer(x1)) = Tail(EnabledFlags(t1.testPlan))
    /\ Parsed2 => EnabledFlags(t2.testPlan) = EnabledFlags(t1.testPlan)

\* the constructor's element of the kind, name and identity of e
Constructed(e) ==
  CASE e.type = "ThreadGroup" -> createThreadGroup(e.name, e.id)
    [] e.type = "HTTPSamplerProxy" -> createHTTPSampler(e.name, e.id)
    [] e.type = "RegexExtractor" -> createRegexExtractor(e.name, "", e.id)
    [] e.type = "ResponseAssertion" -> createResponseAssertion(e.name, e.id)

\* C15: decoding a node of a kind with a default-value constructor that
\* carries no properties yields, field by field, the values the constructor
\* gives a fresh element of that kind.
C15_SharedDefaults ==
  (Parsed1 /\ src \in BareDocs) =>
    LET e == t1.testPlan.children[1]
    IN  \A f \in DOMAIN Constructed(e) : Field(e, f) = Constructed(e)[f]

\* C16: parse of a well-formed text whose plan tag has no children container
\* returns a plan with an empty children sequence and raises no error.
C16_RootWithoutContainer ==
  (src = NoContainerDoc /\ pc # "text") =>
    /\ t1 # ParseError
    /\ t1.testPlan.children = <<>>

\* the smaller of two numbers
Min(a, b) == IF a < b THEN a ELSE b

\* C17: a container with n element tags and m container tags, n # m, decodes
\* to the first min(n, m) elements, each with the children of its container;
\* the trailing unmatched tags are not in the tree, and no error is raised.
C17_MismatchedCounts ==
  (src \in MismatchDocs /\ pc # "text") =>
    /\ t1 # ParseError
    /\ LET both == Min(Len(SrcSiblings), Len(SrcContainers))
       IN  /\ ChildNames(t1.testPlan.children[1]) = SubSeq(TagNames(FirstContainer(src)), 1, both)
           /\ \A i \in 1..Min(both, Len(TreeSiblings)) :
                ChildNames(TreeSiblings[i]) = TagNames(SrcContainers[i])

\* the text is an optional minus sign followed by digits only
DenotesInteger(text) ==
  LET body == IF Len(text) > 0 /\ CharAt(text, 1) = "-" THEN SubSeq(text, 2, Len(text)) ELSE text
  IN  Len(body) > 0 /\ DigitPrefix(body, 1) = Len(body)

\* the integer such a text denotes
IntegerOf(text) ==
  IF CharAt(text, 1) = "-" THEN 0 - DigitsValue(SubSeq(text, 2, Len(text)), 1, 0)
  ELSE DigitsValue(text, 1, 0)

\* the duration property of the thread group tag of a text, whatever tag
\* type carries it, and the decoded duration
SrcDuration == FindBy(FirstTag(src).kids, "name", "ThreadGroup.duration")
Duration == t1.testPlan.children[1].duration

\* C18: parseIntOrStringProp returns the integer for every text that denotes
\* one (0 and negative values included) whether an intProp or a stringProp
\* carries it, the raw string for a text with a ${ marker, and otherwise the
\* integer parseInt finds at the start of the text or else the raw string.
C18_IntOrExpression ==
  (Parsed1 /\ src \in NumberDocs /\ SrcDuration # NoNode) =>
    IF DenotesInteger(SrcDuration.text) THEN Duration = Num(IntegerOf(SrcDuration.text))
    ELSE IF Includes(SrcDuration.text, "${") THEN Duration = Str(SrcDuration.text)
    ELSE IF parseInt10(SrcDuration.text) # NaN THEN Duration = parseInt10(SrcDuration.text)
    ELSE Duration = Str(SrcDuration.text)

\* the port property of the sampler tag of a text and the decoded port
SrcPort == FindBy(ChildrenNamed(ElementTags(FirstContainer(src))[1], "intProp"), "name", "HTTPSampler.port")
Port == t1.testPlan.children[1].children[1].port

\* C19: parseIntProp returns undefined, and neither NaN nor an error, when
\* the intProp is present and its text is not parseable as an integer.
C19_IntUnparseable ==
  (src \in NumberDocs /\ pc # "text" /\ SrcPort # NoNode /\ parseInt10(SrcPort.text) = NaN) =>
    /\ t1 # ParseError
    /\ Port = Undefined

\* C20: the host finds the element a toggleEnabled, deleteElement or
\* updateProperty message names by the identity it has in the tree the host
\* last posted to the webview, and rewrites the document with the
\* serialized tree.
C20_EditorIdentity ==
  last # NoMsg => (last.found = last.wanted /\ last.rewritten)

\* C21: the arguments of an HTTP sampler (name, value, metadata and
\* alwaysEncode of each, and their order) are the same after serialize
\* followed by parse.
C21_ArgumentsRoundTrip ==
  (src \in ArgDocs /\ Parsed2) =>
    /\ Len(t2.testPlan.children) = 1
    /\ Len(t2.testPlan.children[1].children) = 1
    /\ t2.testPlan.children[1].children[1].arguments = t1.testPlan.children[1].children[1].arguments

\* C22: an integer field written in the source with the value 0
\* (num_threads, ramp_time, loops, match_number) decodes to 0 and not to
\* the default of the kind.
C22_ZeroIsNotAbsent ==
  (src \in ZeroDocs /\ Parsed1) =>
    LET tg == t1.testPlan.children[1]
        extractor == tg.children[1].children[1]
    IN  /\ tg.numThreads \in {Num(0), Str("0")}
        /\ tg.rampTime \in {Num(0), Str("0")}
        /\ tg.loopController.loops \in {Num(0), Str("0")}
        /\ extractor.matchNumber \in {Num(0), Str("0")}

(***************************************************************************)
(* Properties of the test executor.                                        *)
(***************************************************************************)
\* the spawned processes, those that have emitted neither close nor error,
\* and those running
Processes == 1..Len(procs)
Unfinished == {p \in Processes : procs[p].state \in {"alive", "failing"}}
Alive == {p \in Processes : procs[p].state = "alive"}
Settled == {p \in Processes : procs[p].promise # "pending"}

\* C23: isRunning() is true from the spawn of a process until that process
\* emits close or error, whatever executeTest, stopTest and exits interleave
C23_RunningUntilExit ==
  pc = "executor" => (Unfinished # {} => isRunning)

\* C24: at most one process started by the extension is alive at any time
C24_AtMostOneProcess ==
  pc = "executor" => Cardinality(Alive) <= 1

\* the promise of p agrees with the events of p
SettledByExit(p) ==
  /\ procs[p].state \in {"alive", "failing"} => procs[p].promise = "pending"
  /\ procs[p].state = "errored" => procs[p].promise = "rejected"
  /\ procs[p].state = "closed" =>
       procs[p].promise = (IF procs[p].code = 0 THEN "resolved" ELSE "rejected")

\* the results added by runs are the results of the resolved calls
AddedOnSuccess ==
  /\ \A i \in 1..Len(recentResults) :
       recentResults[i].run # 0 => procs[recentResults[i].run].promise = "resolved"
  /\ \A p \in Processes :
       procs[p].promise = "resolved" => \E i \in 1..Len(recentResults) : recentResults[i].run = p

\* a step in which p emits close or error
Exits(p) ==
  /\ p \in Processes
  /\ Len(procs') = Len(procs)
  /\ procs'[p].state # procs[p].state
  /\ procs'[p].state \in {"closed", "errored"}

\* C25: an executeTest call that spawned settles once, resolved exactly when
\* its process closes with exit code 0 and rejected otherwise (also after
\* stopTest); a result is added only on success; currentProcess is null
\* after the close or error event
C25_SettlesByExitCode ==
  /\ [](pc = "executor" => (AddedOnSuccess /\ \A p \in Processes : SettledByExit(p)))
  /\ [][\A p \in Processes :
         /\ Exits(p) => currentProcess' = 0
         /\ procs[p].promise # "pending" => procs'[p].promise = procs[p].promise]_vars

\* a stopped process has closed, its call rejected, and another run resolved
C25_Witness ==
  /\ pc = "executor"
  /\ \E p \in Processes :
       procs[p].killed /\ procs[p].state = "closed" /\ procs[p].promise = "rejected"
  /\ \E p \in Processes : procs[p].promise = "resolved"
  /\ currentProcess = 0

\* C26: once the promise of a call has settled its watcher is closed and the
\* progress callback is not invoked again, whenever the 1-second timer fires
C26_WatcherClosedOnSettle ==
  pc = "executor" =>
    \A p \in Settled : procs[p].watcher # "open" /\ ~procs[p].late

\* C27: the recent results are at most 10, newest first, and they are the
\* results added last: the eleventh addition removes the oldest
C27_RecentResultsCapped ==
  pc = "executor" =>
    /\ Len(recentResults) <= MaxRecent
    /\ Len(recentResults) = Min(added, MaxRecent)
    /\ \A i \in 1..Len(recentResults) : recentResults[i].stamp = added - i + 1

\* a run has added a result to a full list
C27_Witness ==
  /\ pc = "executor"
  /\ added > MaxRecent
  /\ Len(recentResults) = MaxRecent
  /\ recentResults[1].run # 0

(***************************************************************************)
(* Properties of the synchronisation of webview and document.              *)
(***************************************************************************)
\* the place of the selected element in the tree of the webview
SelectedAt == PositionOf(currentTestPlan, selectedElement)

\* the tree holds at the place an element of the kind and name of the given one
HoldsAt(tree, at, element) ==
  /\ at \in 1..TreeSize(tree.testPlan)
  /\ Preorder(tree.testPlan)[at].type = element.type
  /\ Preorder(tree.testPlan)[at].name = element.name

\* C28: when an element is selected and an 'update' arrives whose tree still
\* contains it, the same element is selected after the update is handled
C28_SelectionRestored ==
  [][(/\ HandlesUpdate
      /\ selectedElement # NoId
      /\ SelectedAt # 0
      /\ HoldsAt(Head(toWeb).data, SelectedAt, Preorder(currentTestPlan.testPlan)[SelectedAt]))
     => selectedElement' = PreorderIds(Head(toWeb).data.testPlan)[SelectedAt]]_vars

\* nothing is in flight between webview and host
Quiescent == toHost = <<>> /\ toWeb = <<>> /\ ~dirty

\* the tree of the text of the document
DocumentTree == parse(document, [i \in 1..MaxIds |-> i])

\* C29: every value saved in the property panel is written to the document,
\* the second and later saves included
C29_EverySaveWritten ==
  (pc = "sync" /\ Quiescent /\ saved # NoSave) =>
    /\ DocumentTree # ParseError
    /\ saved.at \in 1..TreeSize(DocumentTree.testPlan)
    /\ Preorder(DocumentTree.testPlan)[saved.at][SavedProperty] = saved.value

\* C30: an 'update' of the webview with tree T makes the text serialize(T),
\* the webview posts nothing when it handles a host update, and the system
\* comes to rest with the tree of the webview equal to parse(text)
C30_SynchronisationConverges ==
  /\ [][HandlesEdit => document' = serialize(Head(toHost).data)]_vars
  /\ [][HandlesUpdate => toHost' = toHost]_vars
  /\ (pc = "sync" /\ toHost # <<>>) ~>
       (Quiescent /\ currentTestPlan # NoTree /\ SameTree(currentTestPlan, DocumentTree))

\* at rest after a save: the webview shows the saved value
C30_Witness ==
  /\ pc = "sync" /\ Quiescent /\ saved # NoSave
  /\ currentTestPlan # NoTree
  /\ SameTree(currentTestPlan, DocumentTree)
  /\ Preorder(currentTestPlan.testPlan)[saved.at][SavedProperty] = saved.value
====
